---- MODULE Spec2Model ----
(***************************************************************************)
(* The job-dispatch pipeline of image-api: the job store (jobdb), the      *)
(* Ingest handler (cmd/api), the outbox Publisher loop (cmd/publisher) and *)
(* the push Worker handler (cmd/worker), sharing one relational store and  *)
(* one message bus.                                                        *)
(*                                                                         *)
(* A store transaction is a write set that becomes visible at commit; a    *)
(* row lock is held from the statement that takes it to commit/rollback.   *)
(***************************************************************************)
EXTENDS Integers, FiniteSets, Sequences, TLC

\* ------------------------------------------------------------------ bounds

\* Create requests Ingest receives in a run; request r draws job id r and
\* outbox id r from uuid.NewString (fresh, never repeated).
NumReqs == 2
\* Store errors, bus errors and process crashes injected in a run.
MaxFaults == 1
\* OUTBOX_BATCH_SIZE of the Publisher (10 unless configured).
BatchSize == 2
\* Seconds a Worker's clock may advance.
MaxClock == 2

Reqs == 1..NumReqs
JobIds == Reqs
OutboxIds == Reqs
Publishers == {"p1", "p2"}
Workers == {"w1", "w2"}
Pollers == {"q1", "q2"}

\* A nullable text column (sql.NullString) and a nullable JSON column.
NullString == [Valid |-> FALSE, String |-> ""]
Text(str) == [Valid |-> TRUE, String |-> str]
NoResult == [Valid |-> FALSE, croppedImageUrl |-> 0]
\* No transaction holds the row lock.
NoHolder == "none"
NoKey == ""
Keys == {"k1"}
\* Raw request bodies; a1 and b1 decode to different crop requests.
RawBodies == {"a1", "b1"}
\* The bodies of requests without an Idempotency-Key: the store keeps the
\* payload opaque, so one body stands for all.
PlainBodies == {"a1"}
\* Two spellings of one crop request: a2 is a1 with other whitespace and
\* field order.
RespelledBodies == {"a1", "a2"}

VARIABLES
    jobs,        \* table jobs: id -> [status, payload, result, error]
    jobUpdatedAt,\* table jobs, column updated_at: id -> seconds
    clock,       \* Worker instance or poll worker -> its wall clock, in seconds
    jobLock,     \* row locks of jobs: id -> holder or NULL
    outbox,      \* table outbox: id -> [job_id, published, attempts, last_error, created_at]
    outboxLock,  \* row locks of outbox: id -> holder or NULL
    idem,        \* table idempotency_keys: key -> [request_hash, job_id]
    bus,         \* payloads the bus holds (job ids); any may be delivered, repeatedly
    now,         \* Ingest's wall clock, in seconds
    faults,      \* faults injected so far
    rpc, rkey, rbody, rtx, rcreated, rresp, rrespJob, rrespStatus, rreused, rerr, \* Ingest request r
    effects,     \* history: request -> its publishJob calls and its writes of job and outbox rows
    ppc, pbatch, pidx, ptx,                                   \* Publisher p
    wpc, wjob, waff, wres, werr, wresp,                       \* Worker handler w
    acked,       \* history: outbox ids whose publish the bus acknowledged
    startTrue,   \* history: job id -> StartJob calls that returned true
    pipelineRuns,\* history: job id -> pipeline invocations
    completes,   \* history: job id -> CompleteJob statements executed
    fails,       \* history: job id -> FailJob statements executed
    seenRet,     \* history: publisher -> rows other claims returned while its claim tx is open
    gresp,       \* GET /jobs/{id}: job id -> the latest response
    gdone,       \* history: job id -> the first response with status done
    qpc,         \* poll worker -> position in its loop
    qjob,        \* poll worker -> the job its ClaimJob selected
    claimTrue,   \* history: job id -> number of ClaimJob calls that returned it
    call,        \* a call of one pipeline function: its name and arguments
    ret          \* that call's progress and return values

storeVars == <<jobs, jobUpdatedAt, jobLock, outbox, outboxLock, idem>>
reqVars ==
    <<rpc, rkey, rbody, rtx, rcreated, rresp, rrespJob, rrespStatus, rreused, rerr,
      effects>>
pubVars == <<ppc, pbatch, pidx, ptx>>
workVars == <<wpc, wjob, waff, wres, werr, wresp>>
histVars == <<acked, startTrue, pipelineRuns, completes, fails, seenRet>>
readVars == <<gresp, gdone>>
pollVars == <<qpc, qjob, claimTrue>>
callVars == <<call, ret>>
vars == <<storeVars, bus, now, faults, reqVars, pubVars, workVars, histVars, readVars,
          pollVars, clock, callVars>>

\* ------------------------------------------------------------ store rows

JobExists(j) == j \in DOMAIN jobs

\* INSERT INTO jobs ... VALUES (?, 'pending', ?, NULL, NULL, ?, ?)
NewJobRow(payload) ==
    [status |-> "pending", payload |-> payload, result |-> NoResult, error |-> NullString]

\* INSERT INTO outbox ... VALUES (?, ?, ?, NULL, 0, NULL, ?, ?)
NewOutboxRow(jobID, createdAt) ==
    [job_id |-> jobID, published |-> FALSE, attempts |-> 0,
     last_error |-> NullString, created_at |-> createdAt]

\* The result JSON of the pipeline, {"croppedImageUrl": publicURL}; the public
\* URL of object crops/<jobID>.jpg is told apart by the job id.
ResultOf(jobID) == [Valid |-> TRUE, croppedImageUrl |-> jobID]

\* A fault may still be injected.
CanFault == faults < MaxFaults

\* ------------------------------------------------------- jobdb: job rows

\* Variant: the UPDATE of StartJob without its status condition.
StartJobMatchesAnyStatus(j) == JobExists(j)

\* Variant: the UPDATE of StartJob also taking failed jobs, to retry them.
StartJobMatchesRetry(j) == JobExists(j) /\ jobs[j].status \in {"pending", "failed"}

\* StartJob: UPDATE jobs SET status = 'in_progress' WHERE id = ? AND status = 'pending'
\* matches the row only while it is pending.
StartJobMatches(j) == JobExists(j) /\ jobs[j].status = "pending"

\* Variant: StartJob returning true whatever RowsAffected said.
ClaimedAlways(affected) == affected >= 0

\* StartJob: return affected == 1
Claimed(affected) == affected = 1

StartJobRow(row) == [row EXCEPT !.status = "in_progress"]

\* Variant: CompleteJob's UPDATE setting the status and leaving result alone.
CompleteJobRowWithoutResult(row, result) ==
    [row EXCEPT !.status = "done", !.error = NullString]

\* CompleteJob: UPDATE jobs SET status = 'done', result = ?, error = NULL WHERE id = ?
CompleteJobRow(row, result) ==
    [row EXCEPT !.status = "done", !.result = result, !.error = NullString]

\* Variant: FailJob's UPDATE setting the status and leaving error alone.
FailJobRowWithoutError(row, msg) == [row EXCEPT !.status = "failed"]

\* FailJob: UPDATE jobs SET status = 'failed', error = ? WHERE id = ?
FailJobRow(row, msg) == [row EXCEPT !.status = "failed", !.error = Text(msg)]

\* NowISO in the process me: its wall clock, to the second.
NowISO(me) == clock[me]

\* updated_at = ? of an UPDATE jobs ... WHERE id = j run by process me.
Touched(j, me) ==
    IF JobExists(j) THEN [jobUpdatedAt EXCEPT ![j] = NowISO(me)] ELSE jobUpdatedAt

\* The clock of process me passes to the next second.
ClockTick(me) ==
    /\ clock[me] < MaxClock
    /\ clock' = [clock EXCEPT ![me] = @ + 1]
    /\ UNCHANGED <<storeVars, bus, now, faults, reqVars, pubVars, workVars, histVars,
                   readVars, pollVars, callVars>>

\* An UPDATE ... WHERE id = j: the row, when it exists, becomes newRow.
UpdateJob(j, newRow) == IF JobExists(j) THEN [jobs EXCEPT ![j] = newRow] ELSE jobs

\* A statement on row j waits while another transaction holds its lock; a
\* row that does not exist has none.
JobRowFree(j, me) == IF JobExists(j) THEN jobLock[j] \in {NoHolder, me} ELSE TRUE

\* Variant: a transaction that ends without giving up its row locks.
KeepJobLocks(me) == jobLock

ReleaseJobLocks(me) == [j \in JobIds |-> IF jobLock[j] = me THEN NoHolder ELSE jobLock[j]]

\* ------------------------------------------------- Worker: /pubsub/jobs

\* The outcomes of jobProcessor.Process: a result, or one of its errors.
ErrCropOutOfBounds == "crop rectangle exceeds image bounds"
ErrDownload == "unexpected status code"
PipelineErrors == {ErrCropOutOfBounds, ErrDownload}

WorkerOthers ==
    <<outbox, outboxLock, idem, bus, now, reqVars, pubVars, acked, seenRet, readVars,
      pollVars, clock, callVars>>

\* The handler answers with status code; the bus sees the answer in WorkerRespond.
WorkerAnswer(w, code) ==
    /\ wpc' = [wpc EXCEPT ![w] = "done"]
    /\ wresp' = [wresp EXCEPT ![w] = code]

\* A store call of the handler failed and it answers 500.
WorkerStoreError(w) ==
    /\ CanFault
    /\ faults' = faults + 1
    /\ WorkerAnswer(w, 500)

\* The bus pushes a message it holds to an idle handler (first delivery,
\* redelivery or duplicate alike); the handler decodes the job id and
\* StartJob opens its transaction with db.Begin.
WorkerDeliver(w) ==
    /\ wpc[w] = "idle"
    /\ \E m \in bus : wjob' = [wjob EXCEPT ![w] = m]
    /\ \/ /\ wpc' = [wpc EXCEPT ![w] = "exec"]
          /\ UNCHANGED <<faults, wresp>>
       \/ WorkerStoreError(w)
    /\ UNCHANGED <<jobs, jobUpdatedAt, jobLock, waff, wres, werr,
                   startTrue, pipelineRuns, completes, fails, WorkerOthers>>

\* Job ids no request created: the jobId of a message that did not come from
\* this system's outbox.
UnknownJobIds == {NumReqs + 1}

\* A request reaches /pubsub/jobs that Publisher and Ingest did not send: its
\* body is not a push envelope with a jobId (400 from the decode steps), or
\* it names a job the store does not have, and StartJob opens its transaction.
WorkerDeliverForeign(w) ==
    /\ wpc[w] = "idle"
    /\ \/ /\ WorkerAnswer(w, 400)
          /\ UNCHANGED <<wjob, faults>>
       \/ /\ \E j \in UnknownJobIds : wjob' = [wjob EXCEPT ![w] = j]
          /\ \/ /\ wpc' = [wpc EXCEPT ![w] = "exec"]
                /\ UNCHANGED <<faults, wresp>>
             \/ WorkerStoreError(w)
    /\ UNCHANGED <<jobs, jobUpdatedAt, jobLock, waff, wres, werr,
                   startTrue, pipelineRuns, completes, fails, WorkerOthers>>

\* StartJob: tx.Exec(UPDATE ...) and RowsAffected; the row stays locked until
\* the transaction ends.
StartJobExec(w) ==
    /\ wpc[w] = "exec"
    /\ \/ /\ JobRowFree(wjob[w], w)
          /\ waff' = [waff EXCEPT ![w] = IF StartJobMatches(wjob[w]) THEN 1 ELSE 0]
          /\ jobLock' = IF JobExists(wjob[w])
                        THEN [jobLock EXCEPT ![wjob[w]] = w] ELSE jobLock
          /\ wpc' = [wpc EXCEPT ![w] = "commit"]
          /\ UNCHANGED <<faults, wresp>>
       \/ /\ WorkerStoreError(w)
          /\ UNCHANGED <<waff, jobLock>>
    /\ UNCHANGED <<jobs, jobUpdatedAt, wjob, wres, werr,
                   startTrue, pipelineRuns, completes, fails, WorkerOthers>>

\* StartJob: tx.Commit(), return affected == 1; the handler answers 200 to a
\* message whose job it did not claim.
StartJobCommit(w) ==
    /\ wpc[w] = "commit"
    /\ jobLock' = ReleaseJobLocks(w)
    /\ waff' = [waff EXCEPT ![w] = 0]
    /\ \/ /\ jobs' = IF waff[w] = 1
                     THEN UpdateJob(wjob[w], StartJobRow(jobs[wjob[w]])) ELSE jobs
          /\ jobUpdatedAt' = IF waff[w] = 1 THEN Touched(wjob[w], w) ELSE jobUpdatedAt
          /\ IF Claimed(waff[w])
             THEN /\ startTrue' = [startTrue EXCEPT ![wjob[w]] = @ + 1]
                  /\ wpc' = [wpc EXCEPT ![w] = "get"]
                  /\ UNCHANGED wresp
             ELSE /\ WorkerAnswer(w, 200)
                  /\ UNCHANGED startTrue
          /\ UNCHANGED faults
       \/ /\ WorkerStoreError(w)
          /\ UNCHANGED <<jobs, jobUpdatedAt, startTrue>>
    /\ UNCHANGED <<wjob, wres, werr, pipelineRuns, completes, fails, WorkerOthers>>

\* jobdb.GetJob, a point read without locks (404 when the row is missing),
\* then processor.Process: download, decode, validate, crop, encode, upload.
WorkerProcess(w) ==
    /\ wpc[w] = "get"
    /\ \/ /\ JobExists(wjob[w])
          /\ pipelineRuns' = [pipelineRuns EXCEPT ![wjob[w]] = @ + 1]
          /\ \/ /\ wres' = [wres EXCEPT ![w] = ResultOf(wjob[w])]
                /\ wpc' = [wpc EXCEPT ![w] = "complete"]
                /\ UNCHANGED werr
             \/ \E e \in PipelineErrors :
                  /\ werr' = [werr EXCEPT ![w] = e]
                  /\ wpc' = [wpc EXCEPT ![w] = "fail"]
                  /\ UNCHANGED wres
          /\ UNCHANGED <<faults, wresp>>
       \/ /\ ~JobExists(wjob[w])
          /\ WorkerAnswer(w, 404)
          /\ UNCHANGED <<faults, wres, werr, pipelineRuns>>
       \/ /\ WorkerStoreError(w)
          /\ UNCHANGED <<wres, werr, pipelineRuns>>
    /\ UNCHANGED <<jobs, jobUpdatedAt, jobLock, wjob, waff,
                   startTrue, completes, fails, WorkerOthers>>

\* jobdb.FailJob, then 500 whether or not the store took the update.
WorkerFail(w) ==
    /\ wpc[w] = "fail"
    /\ \/ /\ JobRowFree(wjob[w], NoHolder)
          /\ jobs' = UpdateJob(wjob[w], FailJobRow(jobs[wjob[w]], werr[w]))
          /\ jobUpdatedAt' = Touched(wjob[w], w)
          /\ fails' = [fails EXCEPT ![wjob[w]] = @ + 1]
          /\ UNCHANGED faults
       \/ /\ CanFault
          /\ faults' = faults + 1
          /\ UNCHANGED <<jobs, jobUpdatedAt, fails>>
    /\ WorkerAnswer(w, 500)
    /\ UNCHANGED <<jobLock, wjob, waff, wres, werr,
                   startTrue, pipelineRuns, completes, WorkerOthers>>

\* jobdb.CompleteJob: 200, or 500 when the store refused the update.
WorkerComplete(w) ==
    /\ wpc[w] = "complete"
    /\ \/ /\ JobRowFree(wjob[w], NoHolder)
          /\ jobs' = UpdateJob(wjob[w], CompleteJobRow(jobs[wjob[w]], wres[w]))
          /\ jobUpdatedAt' = Touched(wjob[w], w)
          /\ completes' = [completes EXCEPT ![wjob[w]] = @ + 1]
          /\ WorkerAnswer(w, 200)
          /\ UNCHANGED faults
       \/ /\ WorkerStoreError(w)
          /\ UNCHANGED <<jobs, jobUpdatedAt, completes>>
    /\ UNCHANGED <<jobLock, wjob, waff, wres, werr,
                   startTrue, pipelineRuns, fails, WorkerOthers>>

\* The answer reaches the bus and the handler is free for the next delivery.
WorkerRespond(w) ==
    /\ wpc[w] = "done"
    /\ wpc' = [wpc EXCEPT ![w] = "idle"]
    /\ wjob' = [wjob EXCEPT ![w] = 0]
    /\ wres' = [wres EXCEPT ![w] = NoResult]
    /\ werr' = [werr EXCEPT ![w] = ""]
    /\ wresp' = [wresp EXCEPT ![w] = 0]
    /\ UNCHANGED <<jobs, jobUpdatedAt, jobLock, faults, waff,
                   startTrue, pipelineRuns, completes, fails, WorkerOthers>>

\* The worker process dies in the middle of a request: its open transaction
\* rolls back and nothing is answered.
WorkerCrash(w) ==
    /\ wpc[w] \notin {"idle", "done"}
    /\ CanFault
    /\ faults' = faults + 1
    /\ jobLock' = ReleaseJobLocks(w)
    /\ wpc' = [wpc EXCEPT ![w] = "idle"]
    /\ wjob' = [wjob EXCEPT ![w] = 0]
    /\ waff' = [waff EXCEPT ![w] = 0]
    /\ wres' = [wres EXCEPT ![w] = NoResult]
    /\ werr' = [werr EXCEPT ![w] = ""]
    /\ wresp' = [wresp EXCEPT ![w] = 0]
    /\ UNCHANGED <<jobs, jobUpdatedAt, startTrue, pipelineRuns, completes, fails, WorkerOthers>>

\* ------------------------------------------------ jobdb: FailJob, called directly

\* Calls of FailJob by a caller of package jobdb other than the handler.
MaxCalls == 2

\* jobdb.FailJob(db, j, msg) called by process me on any job id, whatever the
\* job's status: one UPDATE ... WHERE id = ?, which a store error may refuse.
FailJobCall(me, j, msg) ==
    /\ fails[j] < MaxCalls
    /\ \/ /\ JobRowFree(j, NoHolder)
          /\ jobs' = UpdateJob(j, FailJobRow(jobs[j], msg))
          /\ jobUpdatedAt' = Touched(j, me)
          /\ fails' = [fails EXCEPT ![j] = @ + 1]
          /\ UNCHANGED faults
       \/ /\ CanFault
          /\ faults' = faults + 1
          /\ UNCHANGED <<jobs, jobUpdatedAt, fails>>
    /\ UNCHANGED <<jobLock, wpc, wjob, waff, wres, werr, wresp,
                   startTrue, pipelineRuns, completes, WorkerOthers>>

\* ---------------------------------------------------- jobdb: outbox rows

OutboxExists(o) == o \in DOMAIN outbox

OutboxRowFree(o, me) == outboxLock[o] \in {NoHolder, me}

ReleaseOutboxLocks(me) ==
    [o \in OutboxIds |-> IF outboxLock[o] = me THEN NoHolder ELSE outboxLock[o]]

Range(seq) == {seq[i] : i \in 1..Len(seq)}

Min(a, b) == IF a < b THEN a ELSE b

\* Variant: the SELECT also requiring attempts = 0, so that a row is claimed
\* once and never retried.
ClaimableOnce ==
    {o \in DOMAIN outbox :
        ~outbox[o].published /\ outbox[o].attempts = 0 /\ outboxLock[o] = NoHolder}

\* The rows ClaimOutboxBatch's SELECT may lock: WHERE published_at IS NULL
\* ... FOR UPDATE SKIP LOCKED leaves out the rows another transaction holds.
Claimable ==
    {o \in DOMAIN outbox : ~outbox[o].published /\ outboxLock[o] = NoHolder}

\* Variant: the SELECT without ORDER BY created_at.
SelectResultsUnordered(candidates, limit) ==
    LET n == Min(limit, Cardinality(candidates))
    IN  {seq \in [1..n -> candidates] : \A i, k \in 1..n : i < k => seq[i] # seq[k]}

\* ORDER BY created_at LIMIT ?: the results the SELECT may return over the
\* candidate rows, oldest first, rows of one second in either order.
SelectResults(candidates, limit) ==
    LET n == Min(limit, Cardinality(candidates))
    IN  {seq \in [1..n -> candidates] :
            /\ \A i, k \in 1..n : i < k =>
                    /\ seq[i] # seq[k]
                    /\ outbox[seq[i]].created_at <= outbox[seq[k]].created_at
            /\ \A c \in candidates \ Range(seq) : \A i \in 1..n :
                    outbox[seq[i]].created_at <= outbox[c].created_at}

\* Variant: the UPDATE without its WHERE clause, incrementing every row.
BumpAttemptsEveryRow(rows) ==
    [o \in DOMAIN outbox |-> [outbox[o] EXCEPT !.attempts = @ + 1]]

\* UPDATE outbox SET attempts = attempts + 1 WHERE id = ?, for every row of rows.
BumpAttempts(rows) ==
    [o \in DOMAIN outbox |->
        IF o \in rows THEN [outbox[o] EXCEPT !.attempts = @ + 1] ELSE outbox[o]]

\* MarkOutboxPublished: UPDATE outbox SET published_at = ?, last_error = NULL WHERE id = ?
MarkPublishedRow(row) == [row EXCEPT !.published = TRUE, !.last_error = NullString]

\* Variant: RecordOutboxError's UPDATE resetting published_at to NULL.
RecordErrorRowUnpublished(row, msg) ==
    [row EXCEPT !.published = FALSE, !.last_error = Text(msg)]

\* Variant: RecordOutboxError's UPDATE setting published_at as well.
RecordErrorRowPublished(row, msg) ==
    [row EXCEPT !.published = TRUE, !.last_error = Text(msg)]

\* Variant: RecordOutboxError's UPDATE counting the failed publish in attempts.
RecordErrorRowCounted(row, msg) ==
    [row EXCEPT !.attempts = @ + 1, !.last_error = Text(msg)]

\* RecordOutboxError: UPDATE outbox SET last_error = ? WHERE id = ?
RecordErrorRow(row, msg) == [row EXCEPT !.last_error = Text(msg)]

UpdateOutbox(o, newRow) ==
    IF OutboxExists(o) THEN [outbox EXCEPT ![o] = newRow] ELSE outbox

\* The error text of a publish the bus did not acknowledge.
ErrPublish == "publish failed"

\* ------------------------------------------- Publisher: runPublisherLoop

PublisherOthers ==
    <<jobs, jobUpdatedAt, jobLock, idem, now, reqVars, workVars,
      startTrue, pipelineRuns, completes, fails, readVars, pollVars, clock,
      callVars>>

\* A publisher whose ClaimOutboxBatch transaction is open.
InClaimTx(p) == ppc[p] \in {"select", "commit"}

\* A publisher whose ClaimOutboxBatch holds the locks of the rows it selected.
HoldsClaimLocks(p) == ppc[p] = "commit"

\* Variant: a failed ClaimOutboxBatch returning without tx.Rollback, so that
\* its row locks stay.
ClaimFailedKeepsLocks(p) ==
    /\ CanFault
    /\ faults' = faults + 1
    /\ pbatch' = [pbatch EXCEPT ![p] = <<>>]
    /\ ptx' = [ptx EXCEPT ![p] = {}]
    /\ ppc' = [ppc EXCEPT ![p] = "claim"]
    /\ seenRet' = [seenRet EXCEPT ![p] = {}]
    /\ UNCHANGED <<outbox, outboxLock, pidx, bus, acked>>

\* ClaimOutboxBatch failed: the transaction is rolled back; the loop logs
\* the error, sleeps pollInterval and starts the next tick.
ClaimFailed(p) ==
    /\ CanFault
    /\ faults' = faults + 1
    /\ outboxLock' = ReleaseOutboxLocks(p)
    /\ pbatch' = [pbatch EXCEPT ![p] = <<>>]
    /\ ptx' = [ptx EXCEPT ![p] = {}]
    /\ ppc' = [ppc EXCEPT ![p] = "claim"]
    /\ seenRet' = [seenRet EXCEPT ![p] = {}]
    /\ UNCHANGED <<outbox, pidx, bus, acked>>

\* ClaimOutboxBatch: db.BeginTx
ClaimBegin(p) ==
    /\ ppc[p] = "claim"
    /\ \/ /\ ppc' = [ppc EXCEPT ![p] = "select"]
          /\ UNCHANGED <<outbox, outboxLock, pbatch, pidx, ptx, bus, acked, faults,
                         seenRet>>
       \/ ClaimFailed(p)
    /\ UNCHANGED PublisherOthers

\* ClaimOutboxBatch: the locking SELECT, the scan of its rows, and the
\* attempts updates, one per selected row, inside the transaction.
ClaimSelect(p) ==
    /\ ppc[p] = "select"
    /\ \/ \E seq \in SelectResults(Claimable, BatchSize) :
            /\ pbatch' = [pbatch EXCEPT ![p] = seq]
            /\ outboxLock' = [o \in OutboxIds |->
                                IF o \in Range(seq) THEN p ELSE outboxLock[o]]
            /\ ptx' = [ptx EXCEPT ![p] = Range(seq)]
            /\ ppc' = [ppc EXCEPT ![p] = "commit"]
            /\ UNCHANGED <<outbox, pidx, bus, acked, seenRet, faults>>
       \/ ClaimFailed(p)
    /\ UNCHANGED PublisherOthers

\* ClaimOutboxBatch: tx.Commit and return of the messages; on an empty batch
\* the loop sleeps pollInterval and starts the next tick, otherwise it
\* publishes the first message.
ClaimCommit(p) ==
    /\ ppc[p] = "commit"
    /\ \/ /\ outbox' = BumpAttempts(ptx[p])
          /\ outboxLock' = ReleaseOutboxLocks(p)
          /\ ptx' = [ptx EXCEPT ![p] = {}]
          /\ seenRet' = [q \in Publishers |->
                            IF q # p /\ InClaimTx(q)
                            THEN seenRet[q] \cup Range(pbatch[p]) ELSE {}]
          /\ IF pbatch[p] = <<>>
             THEN /\ ppc' = [ppc EXCEPT ![p] = "claim"]
                  /\ UNCHANGED pidx
             ELSE /\ ppc' = [ppc EXCEPT ![p] = "publish"]
                  /\ pidx' = [pidx EXCEPT ![p] = 1]
          /\ UNCHANGED <<pbatch, bus, acked, faults>>
       \/ ClaimFailed(p)
    /\ UNCHANGED PublisherOthers

\* The loop moves to the next message of the batch, or to the next tick.
PublisherAdvance(p) ==
    IF pidx[p] < Len(pbatch[p])
    THEN /\ pidx' = [pidx EXCEPT ![p] = @ + 1]
         /\ ppc' = [ppc EXCEPT ![p] = "publish"]
         /\ UNCHANGED pbatch
    ELSE /\ pidx' = [pidx EXCEPT ![p] = 0]
         /\ ppc' = [ppc EXCEPT ![p] = "claim"]
         /\ pbatch' = [pbatch EXCEPT ![p] = <<>>]

\* publisher.Publish and result.Get: the bus acknowledges, or the publish
\* fails; a failed publish may still have reached the bus.
PublisherPublish(p) ==
    /\ ppc[p] = "publish"
    /\ LET o == pbatch[p][pidx[p]]
       IN  \/ /\ bus' = bus \cup {outbox[o].job_id}
              /\ acked' = acked \cup {o}
              /\ ppc' = [ppc EXCEPT ![p] = "mark"]
              /\ UNCHANGED faults
           \/ /\ CanFault
              /\ faults' = faults + 1
              /\ \E reached \in BOOLEAN :
                    bus' = IF reached THEN bus \cup {outbox[o].job_id} ELSE bus
              /\ ppc' = [ppc EXCEPT ![p] = "record"]
              /\ UNCHANGED acked
    /\ UNCHANGED <<outbox, outboxLock, pbatch, pidx, ptx, seenRet, PublisherOthers>>

\* jobdb.MarkOutboxPublished after the acknowledgement; a store error is logged.
PublisherMark(p) ==
    /\ ppc[p] = "mark"
    /\ LET o == pbatch[p][pidx[p]]
       IN  \/ /\ OutboxRowFree(o, p)
              /\ outbox' = UpdateOutbox(o, MarkPublishedRow(outbox[o]))
              /\ UNCHANGED faults
           \/ /\ CanFault
              /\ faults' = faults + 1
              /\ UNCHANGED outbox
    /\ PublisherAdvance(p)
    /\ UNCHANGED <<outboxLock, ptx, bus, acked, seenRet, PublisherOthers>>

\* jobdb.RecordOutboxError after a failed publish; its own error is dropped.
PublisherRecord(p) ==
    /\ ppc[p] = "record"
    /\ LET o == pbatch[p][pidx[p]]
       IN  \/ /\ OutboxRowFree(o, p)
              /\ outbox' = UpdateOutbox(o, RecordErrorRow(outbox[o], ErrPublish))
              /\ UNCHANGED faults
           \/ /\ CanFault
              /\ faults' = faults + 1
              /\ UNCHANGED outbox
    /\ PublisherAdvance(p)
    /\ UNCHANGED <<outboxLock, ptx, bus, acked, seenRet, PublisherOthers>>

\* The publisher process dies and is restarted: its open transaction rolls
\* back and the batch it held is forgotten.
PublisherCrash(p) ==
    /\ ppc[p] # "claim"
    /\ CanFault
    /\ faults' = faults + 1
    /\ outboxLock' = ReleaseOutboxLocks(p)
    /\ pbatch' = [pbatch EXCEPT ![p] = <<>>]
    /\ pidx' = [pidx EXCEPT ![p] = 0]
    /\ ptx' = [ptx EXCEPT ![p] = {}]
    /\ ppc' = [ppc EXCEPT ![p] = "claim"]
    /\ seenRet' = [seenRet EXCEPT ![p] = {}]
    /\ UNCHANGED <<outbox, bus, acked, PublisherOthers>>

\* ------------------------------------- jobdb: ClaimOutboxBatch, called directly

\* The limits ClaimOutboxBatch is called with.
ClaimLimits == -1 .. BatchSize

ClaimNotCalled == [done |-> FALSE, rows |-> <<>>, err |-> ""]

\* jobdb.ClaimOutboxBatch(ctx, db, limit) called by a caller of package jobdb
\* other than the Publisher loop, as one transaction: with limit <= 0 it
\* returns nil, nil before it opens a transaction; otherwise it selects,
\* increments attempts and commits, or a statement fails and it rolls back.
ClaimOutboxBatchCall ==
    /\ call.fn = "ClaimOutboxBatch"
    /\ ~ret.done
    /\ IF call.limit <= 0
       THEN /\ ret' = [done |-> TRUE, rows |-> <<>>, err |-> ""]
            /\ UNCHANGED <<outbox, faults>>
       ELSE \/ \E seq \in SelectResults(Claimable, call.limit) :
                 /\ outbox' = BumpAttempts(Range(seq))
                 /\ ret' = [done |-> TRUE, rows |-> seq, err |-> ""]
                 /\ UNCHANGED faults
            \/ /\ CanFault
               /\ faults' = faults + 1
               /\ ret' = [done |-> TRUE, rows |-> <<>>, err |-> "store error"]
               /\ UNCHANGED outbox
    /\ UNCHANGED <<jobs, jobUpdatedAt, jobLock, outboxLock, idem, bus, now, reqVars,
                   pubVars, workVars, histVars, readVars, pollVars, clock, call>>

\* ------------------------------------------------ Ingest: POST /jobs/image-crop

\* json.Unmarshal then json.Marshal of the request: the canonical payload of
\* a raw body.
Canonical(raw) == CASE raw \in {"a1", "a2"} -> "A" [] raw = "b1" -> "B" [] OTHER -> raw

\* hashBody: hex SHA-256 of the raw body bytes (no two raw bodies collide).
hashBody(raw) == <<"sha256", raw>>

IngestOthers ==
    <<jobLock, pubVars, workVars, startTrue, pipelineRuns, completes, fails, seenRet,
      readVars, pollVars, clock, callVars>>

NoError == ""
ErrStore == "store error"
ErrIdempotencyKeyConflict == "idempotency key conflict"

\* Variant: the handler answering 201 to a replay as well.
CreateStatusAlwaysCreated(err, reused) ==
    IF err = ErrIdempotencyKeyConflict THEN 409
    ELSE IF err # NoError THEN 500
    ELSE 201

\* Variant: the handler without the errors.Is test for the key conflict.
CreateStatusWithoutConflict(err, reused) ==
    IF err # NoError THEN 500
    ELSE IF reused THEN 200
    ELSE 201

\* The status PostJobsImageCrop answers with: 409 for a key conflict, 500 for
\* any other error of the store, 200 for a replayed request, 201 for a new job.
CreateStatus(err, reused) ==
    IF err = ErrIdempotencyKeyConflict THEN 409
    ELSE IF err # NoError THEN 500
    ELSE IF reused THEN 200
    ELSE 201

\* Job.Status of the job the store call returned: InsertJobWithOutbox returns
\* the job it built, a replay returns the stored job as read by job_id.
CreatedJobStatus == "pending"
ExistingJobStatus(jobID) == jobs[jobID].status

\* Status of the api.JobResponse the handler writes (empty in an error body).
ResponseStatus(err, reused, jobID) ==
    IF err # NoError THEN ""
    ELSE IF reused THEN ExistingJobStatus(jobID)
    ELSE CreatedJobStatus

\* Variant: the handler calling publishJob after every successful store call.
PublishesJobAlways(reused) == TRUE

\* if !reused { s.publishJob(...) }: only a newly created job is published.
PublishesJob(reused) == ~reused

\* Request r called publishJob; request r changed a job or outbox row.
Published(r) == effects' = [effects EXCEPT ![r].publishes = @ + 1]
Wrote(r) == effects' = [effects EXCEPT ![r].writes = @ + 1]

\* writeJSON / writeError: the handler answers and returns.
IngestAnswer(r, err, reused, jobID) ==
    /\ rrespStatus' = [rrespStatus EXCEPT ![r] = ResponseStatus(err, reused, jobID)]
    /\ rpc' = [rpc EXCEPT ![r] = "done"]
    /\ rerr' = [rerr EXCEPT ![r] = err]
    /\ rreused' = [rreused EXCEPT ![r] = reused]
    /\ rresp' = [rresp EXCEPT ![r] = CreateStatus(err, reused)]
    /\ rrespJob' = [rrespJob EXCEPT ![r] = jobID]

\* The handler reads, decodes and validates the body and encodes the payload;
\* the request carries no Idempotency-Key header.
IngestReceive(r) ==
    /\ rpc[r] = "new"
    /\ \E body \in PlainBodies : rbody' = [rbody EXCEPT ![r] = body]
    /\ rpc' = [rpc EXCEPT ![r] = "insert"]
    /\ UNCHANGED <<jobs, jobUpdatedAt, outbox, outboxLock, idem, bus, now, faults, acked, rkey,
                   rtx, rcreated, rresp, rrespJob, rrespStatus, rreused, rerr, effects,
                   IngestOthers>>

\* The same for a request that carries an Idempotency-Key header.
IngestReceiveKeyed(r) ==
    /\ rpc[r] = "new"
    /\ \E key \in Keys, body \in RawBodies :
        /\ rkey' = [rkey EXCEPT ![r] = key]
        /\ rbody' = [rbody EXCEPT ![r] = body]
    /\ rpc' = [rpc EXCEPT ![r] = "idem_lookup"]
    /\ UNCHANGED <<jobs, jobUpdatedAt, outbox, outboxLock, idem, bus, now, faults, acked,
                   rtx, rcreated, rresp, rrespJob, rrespStatus, rreused, rerr, effects,
                   IngestOthers>>

\* A request with an Idempotency-Key header whose body is one of the two
\* spellings of one crop request.
IngestReceiveRespelled(r) ==
    /\ rpc[r] = "new"
    /\ \E key \in Keys, body \in RespelledBodies :
        /\ rkey' = [rkey EXCEPT ![r] = key]
        /\ rbody' = [rbody EXCEPT ![r] = body]
    /\ rpc' = [rpc EXCEPT ![r] = "idem_lookup"]
    /\ UNCHANGED <<jobs, jobUpdatedAt, outbox, outboxLock, idem, bus, now, faults, acked,
                   rtx, rcreated, rresp, rrespJob, rrespStatus, rreused, rerr, effects,
                   IngestOthers>>

\* Bodies the handler may be sent: the two crop requests, requests without
\* imageUrl or with a width or height that is not positive, and a body that
\* is not JSON.
SentBodies == RawBodies \cup {"nourl", "w0", "hneg", "notjson"}

\* json.Unmarshal(body, &req): the fields of api.ImageCropRequest (a missing
\* imageUrl decodes to the empty string), or a decoding error.
Decode(raw) ==
    CASE raw \in {"a1", "a2"}
           -> [ok |-> TRUE, imageUrl |-> "http://img/a", width |-> 1, height |-> 1]
      [] raw = "b1" -> [ok |-> TRUE, imageUrl |-> "http://img/b", width |-> 2, height |-> 1]
      [] raw = "nourl" -> [ok |-> TRUE, imageUrl |-> "", width |-> 1, height |-> 1]
      [] raw = "w0" -> [ok |-> TRUE, imageUrl |-> "http://img/a", width |-> 0, height |-> 1]
      [] raw = "hneg" -> [ok |-> TRUE, imageUrl |-> "http://img/a", width |-> 1, height |-> -1]
      [] OTHER -> [ok |-> FALSE, imageUrl |-> "", width |-> 0, height |-> 0]

ErrInvalidJSON == "invalid json"
ErrImageUrlRequired == "imageUrl is required"
ErrSize == "width and height must be greater than 0"

\* Variant: the handler testing the width alone.
ValidationErrorWidthOnly(raw) ==
    LET req == Decode(raw)
    IN  IF ~req.ok THEN ErrInvalidJSON
        ELSE IF req.imageUrl = "" THEN ErrImageUrlRequired
        ELSE IF req.width <= 0 THEN ErrSize
        ELSE NoError

\* The checks of PostJobsImageCrop before it touches the store, in order.
ValidationError(raw) ==
    LET req == Decode(raw)
    IN  IF ~req.ok THEN ErrInvalidJSON
        ELSE IF req.imageUrl = "" THEN ErrImageUrlRequired
        ELSE IF req.width <= 0 \/ req.height <= 0 THEN ErrSize
        ELSE NoError

\* writeError(w, http.StatusBadRequest, msg) and return.
IngestReject(r, msg) ==
    /\ rpc' = [rpc EXCEPT ![r] = "done"]
    /\ rerr' = [rerr EXCEPT ![r] = msg]
    /\ rresp' = [rresp EXCEPT ![r] = 400]
    /\ UNCHANGED <<rrespJob, rrespStatus, rreused>>

\* The handler reads any body, with or without an Idempotency-Key header,
\* rejects it with 400 when a check fails and else goes on to the store.
IngestReceiveAny(r) ==
    /\ rpc[r] = "new"
    /\ \E key \in Keys \cup {NoKey}, body \in SentBodies :
        /\ rkey' = [rkey EXCEPT ![r] = key]
        /\ rbody' = [rbody EXCEPT ![r] = body]
        /\ IF ValidationError(body) # NoError
           THEN IngestReject(r, ValidationError(body))
           ELSE /\ rpc' = [rpc EXCEPT ![r] = IF key = NoKey THEN "insert" ELSE "idem_lookup"]
                /\ UNCHANGED <<rresp, rrespJob, rrespStatus, rreused, rerr>>
    /\ UNCHANGED <<jobs, jobUpdatedAt, outbox, outboxLock, idem, bus, now, faults, acked,
                   rtx, rcreated, effects, IngestOthers>>

\* updated_at of the job a committed write set of request r adds: the
\* createdAt that InsertJobWithOutbox writes to both columns.
UpdatedAtWith(r, writes, createdAt) ==
    IF "job" \in writes /\ ~JobExists(r)
    THEN [jobUpdatedAt EXCEPT ![r] = createdAt] ELSE jobUpdatedAt

\* The rows a committed write set of request r adds to the tables.
JobsWith(r, writes) ==
    IF "job" \in writes /\ ~JobExists(r)
    THEN jobs @@ (r :> NewJobRow(Canonical(rbody[r]))) ELSE jobs

\* Variant: the job created with InsertJob, which writes no outbox row.
OutboxWithInsertJob(r, writes, createdAt) == outbox

OutboxWith(r, writes, createdAt) ==
    IF "outbox" \in writes /\ ~OutboxExists(r)
    THEN outbox @@ (r :> NewOutboxRow(r, createdAt)) ELSE outbox

\* The statements of InsertJobWithOutbox before the commit, in order.
InsertStages == <<"begin", "job", "outbox">>

\* Variant: the INSERT INTO jobs run on db instead of tx, so that it stays
\* when a later statement fails.
InsertStmtFailsJobKept(r, stage) ==
    /\ CanFault
    /\ faults' = faults + 1
    /\ rtx' = [rtx EXCEPT ![r] = {}]
    /\ IngestAnswer(r, ErrStore, FALSE, 0)
    /\ jobs' = IF stage \in {"outbox", "commit"} THEN JobsWith(r, {"job"}) ELSE jobs
    /\ jobUpdatedAt' = IF stage \in {"outbox", "commit"}
                       THEN UpdatedAtWith(r, {"job"}, rcreated[r]) ELSE jobUpdatedAt

\* InsertJobWithOutbox when the statement of stage fails: tx.Rollback drops
\* what the transaction wrote so far and the handler answers 500.
InsertStmtFails(r, stage) ==
    /\ CanFault
    /\ faults' = faults + 1
    /\ rtx' = [rtx EXCEPT ![r] = {}]
    /\ IngestAnswer(r, ErrStore, FALSE, 0)
    /\ UNCHANGED <<jobs, jobUpdatedAt>>

\* InsertJobWithOutbox up to the commit: NowISO, the two uuids, db.Begin and
\* the two INSERTs, all into the transaction's write set.
InsertStatements(r) ==
    /\ rpc[r] = "insert"
    /\ \E t \in {now, now + 1} :
        /\ now' = t
        /\ rcreated' = [rcreated EXCEPT ![r] = t]
    /\ \/ /\ rtx' = [rtx EXCEPT ![r] = {"job", "outbox"}]
          /\ rpc' = [rpc EXCEPT ![r] = "commit"]
          /\ UNCHANGED <<jobs, jobUpdatedAt, faults, rresp, rrespJob, rrespStatus, rreused, rerr>>
       \/ \E i \in 1..Len(InsertStages) : InsertStmtFails(r, InsertStages[i])
    /\ UNCHANGED <<outbox, outboxLock, idem, bus, acked,
                   rkey, rbody, effects, IngestOthers>>

\* InsertJobWithOutbox: tx.Commit; then the handler publishes the outbox row.
InsertCommit(r) ==
    /\ rpc[r] = "commit"
    /\ \/ /\ jobs' = JobsWith(r, rtx[r])
          /\ jobUpdatedAt' = UpdatedAtWith(r, rtx[r], rcreated[r])
          /\ outbox' = OutboxWith(r, rtx[r], rcreated[r])
          /\ rtx' = [rtx EXCEPT ![r] = {}]
          /\ rpc' = [rpc EXCEPT ![r] = "publish"]
          /\ Wrote(r)
          /\ UNCHANGED <<faults, rresp, rrespJob, rrespStatus, rreused, rerr>>
       \/ /\ InsertStmtFails(r, "commit")
          /\ UNCHANGED <<outbox, effects>>
    /\ UNCHANGED <<outboxLock, idem, bus, now, acked,
                   rkey, rbody, rcreated, IngestOthers>>

\* publishJob: Publish and result.Get under a 2 s timeout; the bus
\* acknowledges, or the publish fails (and may still have reached the bus).
IngestPublish(r) ==
    /\ rpc[r] = "publish"
    /\ \/ /\ bus' = bus \cup {r}
          /\ acked' = acked \cup {r}
          /\ rpc' = [rpc EXCEPT ![r] = "mark"]
          /\ UNCHANGED faults
       \/ /\ CanFault
          /\ faults' = faults + 1
          /\ \E reached \in BOOLEAN : bus' = IF reached THEN bus \cup {r} ELSE bus
          /\ rpc' = [rpc EXCEPT ![r] = "record"]
          /\ UNCHANGED acked
    /\ Published(r)
    /\ UNCHANGED <<jobs, jobUpdatedAt, outbox, outboxLock, idem, now,
                   rkey, rbody, rtx, rcreated, rresp, rrespJob, rrespStatus, rreused, rerr,
                   IngestOthers>>

\* publishJob: jobdb.MarkOutboxPublished; the handler logs an error of
\* publishJob and answers 201 either way.
IngestMark(r) ==
    /\ rpc[r] = "mark"
    /\ \/ /\ OutboxRowFree(r, NoHolder)
          /\ outbox' = UpdateOutbox(r, MarkPublishedRow(outbox[r]))
          /\ Wrote(r)
          /\ UNCHANGED faults
       \/ /\ CanFault
          /\ faults' = faults + 1
          /\ UNCHANGED <<outbox, effects>>
    /\ IngestAnswer(r, NoError, FALSE, r)
    /\ UNCHANGED <<jobs, jobUpdatedAt, outboxLock, idem, bus, now, acked,
                   rkey, rbody, rtx, rcreated, IngestOthers>>

\* publishJob: jobdb.RecordOutboxError after a failed publish.
IngestRecord(r) ==
    /\ rpc[r] = "record"
    /\ \/ /\ OutboxRowFree(r, NoHolder)
          /\ outbox' = UpdateOutbox(r, RecordErrorRow(outbox[r], ErrPublish))
          /\ Wrote(r)
          /\ UNCHANGED faults
       \/ /\ CanFault
          /\ faults' = faults + 1
          /\ UNCHANGED <<outbox, effects>>
    /\ IngestAnswer(r, NoError, FALSE, r)
    /\ UNCHANGED <<jobs, jobUpdatedAt, outboxLock, idem, bus, now, acked,
                   rkey, rbody, rtx, rcreated, IngestOthers>>

\* The Ingest process dies while it serves request r: an open transaction
\* rolls back and the client gets no answer.
IngestCrash(r) ==
    /\ rpc[r] \notin {"new", "done", "crashed"}
    /\ CanFault
    /\ faults' = faults + 1
    /\ rtx' = [rtx EXCEPT ![r] = {}]
    /\ rpc' = [rpc EXCEPT ![r] = "crashed"]
    /\ UNCHANGED <<jobs, jobUpdatedAt, outbox, outboxLock, idem, bus, now, acked,
                   rkey, rbody, rcreated, rresp, rrespJob, rrespStatus, rreused, rerr, effects,
                   IngestOthers>>

\* --------------------------------------------- bounded waits of a publish

\* The two places that publish and wait for the result, each with the
\* timeout of the context it passes to Publish and result.Get, in seconds:
\* publishJob derives its context with context.WithTimeout(ctx, 2 s), the
\* Publisher loop passes the context.Background() it got from main.
PublishSites == {"publishJob", "runPublisherLoop"}
NoDeadline == 0
PublishTimeout(site) == IF site = "publishJob" THEN 2 ELSE NoDeadline

\* The context of a pending publish at site reaches its deadline: result.Get
\* returns context.DeadlineExceeded and the caller treats the publish as
\* failed (the message may still have reached the bus). A context without
\* deadline never does.
DeadlineExpires(site) ==
    /\ PublishTimeout(site) # NoDeadline
    /\ \E reached \in BOOLEAN :
         IF site = "publishJob"
         THEN \E r \in Reqs :
                /\ rpc[r] = "publish"
                /\ rpc' = [rpc EXCEPT ![r] = "record"]
                /\ bus' = IF reached THEN bus \cup {r} ELSE bus
                /\ Published(r)
                /\ UNCHANGED pubVars
         ELSE \E p \in Publishers :
                /\ ppc[p] = "publish"
                /\ ppc' = [ppc EXCEPT ![p] = "record"]
                /\ bus' = IF reached
                          THEN bus \cup {outbox[pbatch[p][pidx[p]]].job_id} ELSE bus
                /\ UNCHANGED <<pbatch, pidx, ptx, rpc, effects>>
    /\ UNCHANGED <<storeVars, now, faults, rkey, rbody, rtx, rcreated, rresp, rrespJob,
                   rrespStatus, rreused, rerr, workVars, histVars, readVars, pollVars,
                   clock, callVars>>

\* ------------------- jobdb.InsertJobWithOutboxAndIdempotency (from the spec)

IdemExists(k) == k \in DOMAIN idem

\* Step 2 of the operation: the stored hash equals the request's.
IdemSameRequest(k, hash) == IdemExists(k) /\ idem[k].request_hash = hash

\* The lookup of idempotency_keys by key: a stored row with the same hash is
\* answered as a replay (200, the existing job, nothing published), one with
\* another hash as ErrIdempotencyKeyConflict (409); without a row the
\* operation goes on to insert.
IdemLookup(r) ==
    /\ rpc[r] \in {"idem_lookup", "idem_reread"}
    /\ \/ /\ ~IdemExists(rkey[r])
          /\ rpc' = [rpc EXCEPT ![r] = "idem_insert"]
          /\ UNCHANGED <<faults, rresp, rrespJob, rrespStatus, rreused, rerr>>
       \/ /\ IdemSameRequest(rkey[r], hashBody(rbody[r]))
          /\ IF PublishesJob(TRUE)
             THEN /\ rpc' = [rpc EXCEPT ![r] = "publish"]
                  /\ UNCHANGED <<rresp, rrespJob, rrespStatus, rreused, rerr>>
             ELSE IngestAnswer(r, NoError, TRUE, idem[rkey[r]].job_id)
          /\ UNCHANGED faults
       \/ /\ IdemExists(rkey[r])
          /\ ~IdemSameRequest(rkey[r], hashBody(rbody[r]))
          /\ IngestAnswer(r, ErrIdempotencyKeyConflict, FALSE, 0)
          /\ UNCHANGED faults
       \/ /\ CanFault
          /\ faults' = faults + 1
          /\ IngestAnswer(r, ErrStore, FALSE, 0)
    /\ UNCHANGED <<jobs, jobUpdatedAt, outbox, outboxLock, idem, bus, now, acked,
                   rkey, rbody, rtx, rcreated, effects, IngestOthers>>

\* Variant: the key row written as an upsert, so that a request that finds
\* the key taken at insert time overwrites its hash and job.
IdemInsertUpsert(r) ==
    /\ rpc[r] = "idem_insert"
    /\ \/ /\ \E t \in {now, now + 1} :
                /\ now' = t
                /\ rcreated' = [rcreated EXCEPT ![r] = t]
                /\ outbox' = OutboxWith(r, {"outbox"}, t)
                /\ jobUpdatedAt' = UpdatedAtWith(r, {"job"}, t)
          /\ jobs' = JobsWith(r, {"job"})
          /\ idem' = [k \in DOMAIN idem \cup {rkey[r]} |->
                        IF k = rkey[r]
                        THEN [request_hash |-> hashBody(rbody[r]), job_id |-> r]
                        ELSE idem[k]]
          /\ rpc' = [rpc EXCEPT ![r] = "publish"]
          /\ Wrote(r)
          /\ UNCHANGED <<faults, rresp, rrespJob, rrespStatus, rreused, rerr>>
       \/ /\ CanFault
          /\ faults' = faults + 1
          /\ IngestAnswer(r, ErrStore, FALSE, 0)
          /\ UNCHANGED <<jobs, jobUpdatedAt, outbox, idem, now, rcreated, effects>>
    /\ UNCHANGED <<outboxLock, bus, acked, rkey, rbody, rtx, IngestOthers>>

\* The insert of the job, the outbox row and the idempotency row in one
\* transaction. The unique key lets one of two racing inserts win; the loser
\* gets a duplicate-key error, rolls back and retries the lookup.
IdemInsert(r) ==
    /\ rpc[r] = "idem_insert"
    /\ \/ /\ ~IdemExists(rkey[r])
          /\ \E t \in {now, now + 1} :
                /\ now' = t
                /\ rcreated' = [rcreated EXCEPT ![r] = t]
                /\ outbox' = OutboxWith(r, {"outbox"}, t)
                /\ jobUpdatedAt' = UpdatedAtWith(r, {"job"}, t)
          /\ jobs' = JobsWith(r, {"job"})
          /\ idem' = idem @@
                (rkey[r] :> [request_hash |-> hashBody(rbody[r]), job_id |-> r])
          /\ Wrote(r)
          /\ IF PublishesJob(FALSE)
             THEN /\ rpc' = [rpc EXCEPT ![r] = "publish"]
                  /\ UNCHANGED <<rresp, rrespJob, rrespStatus, rreused, rerr>>
             ELSE IngestAnswer(r, NoError, FALSE, r)
          /\ UNCHANGED faults
       \/ /\ IdemExists(rkey[r])
          /\ rpc' = [rpc EXCEPT ![r] = "idem_reread"]
          /\ UNCHANGED <<jobs, jobUpdatedAt, outbox, idem, now, faults, rcreated,
                         rresp, rrespJob, rrespStatus, rreused, rerr, effects>>
       \/ /\ CanFault
          /\ faults' = faults + 1
          /\ IngestAnswer(r, ErrStore, FALSE, 0)
          /\ UNCHANGED <<jobs, jobUpdatedAt, outbox, idem, now, rcreated, effects>>
    /\ UNCHANGED <<outboxLock, bus, acked, rkey, rbody, rtx, IngestOthers>>

\* ------------------------------------------ poll worker: ClaimJob loop

PollOthers ==
    <<outbox, outboxLock, idem, bus, now, reqVars, pubVars, workVars,
      acked, seenRet, startTrue, readVars, clock, callVars>>

\* created_at of a job: InsertJobWithOutbox writes one createdAt to the job
\* and to its outbox row.
JobCreatedAt(j) == outbox[j].created_at

\* Variant: ClaimJob's SELECT without FOR UPDATE SKIP LOCKED, a plain read
\* that neither skips nor waits for a row another transaction has locked.
ClaimJobCandidatesUnlocked == {j \in DOMAIN jobs : jobs[j].status = "pending"}

\* ClaimJob: the rows its SELECT ... WHERE status = 'pending' ... FOR UPDATE
\* SKIP LOCKED may return, the pending rows no other transaction has locked.
ClaimJobCandidates ==
    {j \in DOMAIN jobs : jobs[j].status = "pending" /\ jobLock[j] = NoHolder}

\* ORDER BY created_at LIMIT 1: an oldest candidate.
Oldest(candidates) ==
    {j \in candidates : \A k \in candidates : JobCreatedAt(j) <= JobCreatedAt(k)}

\* processJob of the poll worker: {"ok": true, "echo": payload}, a result
\* JSON without croppedImageUrl; it fails on a payload that is not JSON.
DecodesAsJSON(payload) == payload \in {Canonical(raw) : raw \in RawBodies}
EchoResult == [Valid |-> TRUE, croppedImageUrl |-> 0]
ErrUnmarshal == "invalid character"

\* ClaimJob: db.BeginTx and the locking SELECT of one pending job. Without a
\* candidate ClaimJob returns found = false and the loop sleeps and polls
\* again, which changes nothing.
ClaimJobSelect(q) ==
    /\ qpc[q] = "claim"
    /\ \/ \E j \in Oldest(ClaimJobCandidates) :
            /\ jobLock' = [jobLock EXCEPT ![j] = q]
            /\ qjob' = [qjob EXCEPT ![q] = j]
            /\ qpc' = [qpc EXCEPT ![q] = "update"]
            /\ UNCHANGED faults
       \/ /\ CanFault
          /\ faults' = faults + 1
          /\ UNCHANGED <<jobLock, qjob, qpc>>
    /\ UNCHANGED <<jobs, jobUpdatedAt, claimTrue, pipelineRuns, completes, fails, PollOthers>>

\* ClaimJob: UPDATE jobs SET status = 'in_progress' WHERE id = ?, tx.Commit
\* and return of the job; on an error the transaction rolls back and the
\* loop polls again.
ClaimJobCommit(q) ==
    /\ qpc[q] = "update"
    /\ jobLock' = ReleaseJobLocks(q)
    /\ \/ /\ jobs' = UpdateJob(qjob[q], StartJobRow(jobs[qjob[q]]))
          /\ jobUpdatedAt' = Touched(qjob[q], q)
          /\ claimTrue' = [claimTrue EXCEPT ![qjob[q]] = @ + 1]
          /\ qpc' = [qpc EXCEPT ![q] = "process"]
          /\ UNCHANGED <<faults, qjob>>
       \/ /\ CanFault
          /\ faults' = faults + 1
          /\ qpc' = [qpc EXCEPT ![q] = "claim"]
          /\ qjob' = [qjob EXCEPT ![q] = 0]
          /\ UNCHANGED <<jobs, jobUpdatedAt, claimTrue>>
    /\ UNCHANGED <<pipelineRuns, completes, fails, PollOthers>>

\* processJob on the claimed job's payload, then CompleteJob with its result
\* or FailJob with its error; a store error is logged and the loop goes on.
PollFinish(q) ==
    /\ qpc[q] = "process"
    /\ \/ /\ JobRowFree(qjob[q], NoHolder)
          /\ jobUpdatedAt' = Touched(qjob[q], q)
          /\ IF DecodesAsJSON(jobs[qjob[q]].payload)
             THEN /\ jobs' = UpdateJob(qjob[q], CompleteJobRow(jobs[qjob[q]], EchoResult))
                  /\ completes' = [completes EXCEPT ![qjob[q]] = @ + 1]
                  /\ UNCHANGED fails
             ELSE /\ jobs' = UpdateJob(qjob[q], FailJobRow(jobs[qjob[q]], ErrUnmarshal))
                  /\ fails' = [fails EXCEPT ![qjob[q]] = @ + 1]
                  /\ UNCHANGED completes
          /\ UNCHANGED faults
       \/ /\ CanFault
          /\ faults' = faults + 1
          /\ UNCHANGED <<jobs, jobUpdatedAt, completes, fails>>
    /\ pipelineRuns' = [pipelineRuns EXCEPT ![qjob[q]] = @ + 1]
    /\ qpc' = [qpc EXCEPT ![q] = "claim"]
    /\ qjob' = [qjob EXCEPT ![q] = 0]
    /\ UNCHANGED <<jobLock, claimTrue, PollOthers>>

\* The poll worker process dies: its open transaction rolls back, and it
\* restarts at the top of the loop.
PollCrash(q) ==
    /\ qpc[q] # "claim"
    /\ CanFault
    /\ faults' = faults + 1
    /\ jobLock' = ReleaseJobLocks(q)
    /\ qpc' = [qpc EXCEPT ![q] = "claim"]
    /\ qjob' = [qjob EXCEPT ![q] = 0]
    /\ UNCHANGED <<jobs, jobUpdatedAt, claimTrue, pipelineRuns, completes, fails, PollOthers>>

\* ------------------------------------------------ Ingest: GET /jobs/{id}

\* A nil *string of a response.
NilString == [Valid |-> FALSE, String |-> 0]

\* extractCroppedImageURL: nil when the job has no result or the result JSON
\* has no croppedImageUrl, else that URL.
extractCroppedImageURL(result) ==
    IF ~result.Valid \/ result.croppedImageUrl = 0 THEN NilString
    ELSE [Valid |-> TRUE, String |-> result.croppedImageUrl]

\* Variant: extractError returning a pointer to the column's string without
\* looking at Valid.
extractErrorUnchecked(errText) == [Valid |-> TRUE, String |-> errText.String]

\* extractError: nil when the error column is NULL or empty, else its text.
extractError(errText) ==
    IF ~errText.Valid \/ errText.String = "" THEN NilString
    ELSE [Valid |-> TRUE, String |-> errText.String]

\* api.JobResponse written with 200, and api.ErrorResponse written with code.
JobResponse(row) ==
    [code |-> 200, status |-> row.status,
     croppedImageUrl |-> extractCroppedImageURL(row.result),
     error |-> extractError(row.error)]

ErrorResponse(code) ==
    [code |-> code, status |-> "", croppedImageUrl |-> NilString, error |-> NilString]

\* No GET was answered yet.
NoResponse == ErrorResponse(0)

\* GetJobsId: jobdb.GetJob, a point read of the committed row; 500 when the
\* read fails, 404 when there is no row, else the job as the row has it.
GetJobsId(j) ==
    /\ \/ /\ JobExists(j)
          /\ gresp' = [gresp EXCEPT ![j] = JobResponse(jobs[j])]
          /\ UNCHANGED faults
       \/ /\ ~JobExists(j)
          /\ gresp' = [gresp EXCEPT ![j] = ErrorResponse(404)]
          /\ UNCHANGED faults
       \/ /\ CanFault
          /\ faults' = faults + 1
          /\ gresp' = [gresp EXCEPT ![j] = ErrorResponse(500)]
    /\ gdone' = IF gdone[j] = NoResponse /\ gresp'[j].status = "done"
                THEN [gdone EXCEPT ![j] = gresp'[j]] ELSE gdone
    /\ UNCHANGED <<storeVars, bus, now, reqVars, pubVars, workVars, histVars, pollVars,
                   clock, callVars>>

\* ------------------------------------------------- imageproc: CropImage

\* Go's int, at a width the check can enumerate: two's complement, and
\* addition wraps.
IntBits == 5
MinInt == -(2 ^ (IntBits - 1))
MaxInt == (2 ^ (IntBits - 1)) - 1
GoInt == MinInt .. MaxInt
WrapInt(n) == ((n - MinInt) % (2 ^ IntBits)) + MinInt

ErrCropInvalid == "crop rectangle is invalid"
NoRect == [Min |-> [X |-> 0, Y |-> 0], Max |-> [X |-> 0, Y |-> 0]]

\* CropImage(img, crop): bounds is the image's rectangle, of size Dx by Dy,
\* with its origin at (0, 0) as image.Decode produces it.
CropImage(bounds, crop) ==
    IF crop.Width <= 0 \/ crop.Height <= 0 \/ crop.X < 0 \/ crop.Y < 0
    THEN [err |-> ErrCropInvalid, rect |-> NoRect]
    ELSE IF \/ WrapInt(crop.X + crop.Width) > bounds.Dx
            \/ WrapInt(crop.Y + crop.Height) > bounds.Dy
    THEN [err |-> ErrCropOutOfBounds, rect |-> NoRect]
    ELSE [err |-> "",
          rect |-> [Min |-> [X |-> crop.X, Y |-> crop.Y],
                    Max |-> [X |-> WrapInt(crop.X + crop.Width),
                             Y |-> WrapInt(crop.Y + crop.Height)]]]

\* The images and crops CropImage is called with.
CropBounds == {[Dx |-> 10, Dy |-> 10]}
CropInputs == [X : GoInt, Y : {-1, 0, 5}, Width : GoInt, Height : {0, 5, 10, 15}]

CropImageCall ==
    /\ call.fn = "CropImage"
    /\ ~ret.done
    /\ ret' = [done |-> TRUE, out |-> CropImage(call.bounds, call.crop)]
    /\ UNCHANGED <<storeVars, bus, now, faults, reqVars, pubVars, workVars, histVars,
                   readVars, pollVars, clock, call>>

\* --------------------------------------------------- netfetch: Download

ErrTooLarge == "content exceeds maximum size"
ErrDownloadFailed == "download failed"
ErrInvalidURL == "url must use http or https"
ErrTooManyRedirects == "too many redirects"
ErrTransport == "transport error"

\* The raw URLs of requests and of Location headers, each with the scheme
\* as it is written; the last one has a bad escape and does not parse.
RawURLs ==
    {"http://h/a.jpg", "https://h/a.jpg", "HTTP://h/a.jpg", "file:///tmp/nope",
     "ftp://h/a.jpg", "/b.jpg", "http://h/%zz"}
SchemeAsWritten(rawURL) ==
    CASE rawURL \in {"http://h/a.jpg", "http://h/%zz"} -> "http"
      [] rawURL = "https://h/a.jpg" -> "https"
      [] rawURL = "HTTP://h/a.jpg" -> "HTTP"
      [] rawURL = "file:///tmp/nope" -> "file"
      [] rawURL = "ftp://h/a.jpg" -> "ftp"
      [] OTHER -> ""
ToLower(str) == IF str = "HTTP" THEN "http" ELSE str

\* url.Parse: fails on the bad escape; the scheme is lower-cased.
ParseURL(rawURL) ==
    IF rawURL = "http://h/%zz"
    THEN [ok |-> FALSE, Scheme |-> ""]
    ELSE [ok |-> TRUE, Scheme |-> ToLower(SchemeAsWritten(rawURL))]

isAllowedSchemeAny(rawURL) == TRUE

isAllowedScheme(rawURL) ==
    LET parsed == ParseURL(rawURL)
    IN  IF ~parsed.ok THEN FALSE ELSE parsed.Scheme \in {"http", "https"}

\* The URL of the request that follows a redirect: the Location header
\* resolved against the URL of the request it answers.
ResolveLocation(base, location) ==
    IF ParseURL(location).ok /\ ParseURL(location).Scheme = "" THEN base ELSE location

\* opts.MaxRedirects, defaulted.
RedirectLimit(MaxRedirects) == IF MaxRedirects <= 0 THEN 3 ELSE MaxRedirects

\* What a server may answer: a redirect to a location, or a response with a
\* status, a declared Content-Length (-1: none), a body of some length, and
\* whether the connection breaks while the body is read.
MaxBody == 4
Responses ==
    [kind : {"redirect"}, Location : RawURLs]
    \cup [kind : {"response"}, StatusCode : {200, 404}, ContentLength : {-1, 0, 1, 3},
          body : 0 .. MaxBody, breaks : BOOLEAN]
NoResponseYet == [kind |-> "none"]

\* io.LimitReader(resp.Body, n), read to its end: n <= 0 reads nothing.
LimitRead(body, n) == IF n <= 0 THEN 0 ELSE IF body < n THEN body ELSE n

TooLargeNever(n, MaxBytes) == FALSE

\* opts.MaxBytes > 0 && n > opts.MaxBytes
TooLarge(n, MaxBytes) == MaxBytes > 0 /\ n > MaxBytes

DownloadInputs ==
    [fn : {"Download"}, rawURL : RawURLs, MaxBytes : {0, 2, MaxInt}, MaxRedirects : {0, 1}]
DownloadNotStarted ==
    [done |-> FALSE, pc |-> "start", via |-> <<>>, next |-> "", locations |-> <<>>,
     resp |-> NoResponseYet, err |-> "", data |-> 0]

DownloadOthers ==
    <<storeVars, bus, now, faults, reqVars, pubVars, workVars, histVars,
      readVars, pollVars, clock, call>>

DownloadReturn(err, data) ==
    ret' = [ret EXCEPT !.done = TRUE, !.pc = "returned", !.err = err, !.data = data]

\* The scheme check of the raw URL, before the request is built.
DownloadStart ==
    /\ call.fn = "Download"
    /\ ret.pc = "start"
    /\ IF ~isAllowedScheme(call.rawURL)
       THEN DownloadReturn(ErrInvalidURL, 0)
       ELSE ret' = [ret EXCEPT !.pc = "send", !.next = call.rawURL]
    /\ UNCHANGED DownloadOthers

\* clientCopy.Do: the next request goes out and the server answers, or the
\* transport fails.
DownloadSend ==
    /\ call.fn = "Download"
    /\ ret.pc = "send"
    /\ \/ \E resp \in Responses :
            ret' = [ret EXCEPT !.via = Append(@, ret.next), !.resp = resp,
                               !.pc = IF resp.kind = "redirect" THEN "redirect" ELSE "read"]
       \/ ret' = [ret EXCEPT !.via = Append(@, ret.next), !.done = TRUE,
                             !.pc = "returned", !.err = ErrTransport]
    /\ UNCHANGED DownloadOthers

\* The client follows a redirect: it resolves the Location and asks
\* CheckRedirect before it sends anything.
DownloadRedirect ==
    /\ call.fn = "Download"
    /\ ret.pc = "redirect"
    /\ LET target == ResolveLocation(ret.next, ret.resp.Location)
           seen == [ret EXCEPT !.locations = Append(@, target)]
       IN  IF ~ParseURL(ret.resp.Location).ok
           THEN ret' = [seen EXCEPT !.done = TRUE, !.pc = "returned", !.err = ErrTransport]
           ELSE IF Len(ret.via) >= RedirectLimit(call.MaxRedirects)
           THEN ret' = [seen EXCEPT !.done = TRUE, !.pc = "returned",
                                    !.err = ErrTooManyRedirects]
           ELSE IF ~isAllowedScheme(target)
           THEN ret' = [seen EXCEPT !.done = TRUE, !.pc = "returned", !.err = ErrInvalidURL]
           ELSE ret' = [seen EXCEPT !.pc = "send", !.next = target]
    /\ UNCHANGED DownloadOthers

\* The status check, the Content-Length check, the limited read and the
\* check of what was read.
DownloadRead ==
    /\ call.fn = "Download"
    /\ ret.pc = "read"
    /\ LET resp == ret.resp
           n == IF call.MaxBytes > 0
                THEN LimitRead(resp.body, WrapInt(call.MaxBytes + 1))
                ELSE resp.body
       IN  IF resp.StatusCode < 200 \/ resp.StatusCode >= 300
           THEN DownloadReturn(ErrDownloadFailed, 0)
           ELSE IF call.MaxBytes > 0 /\ resp.ContentLength > call.MaxBytes
           THEN DownloadReturn(ErrTooLarge, 0)
           ELSE IF resp.breaks
           THEN DownloadReturn(ErrTransport, 0)
           ELSE IF TooLarge(n, call.MaxBytes)
           THEN DownloadReturn(ErrTooLarge, 0)
           ELSE DownloadReturn("", n)
    /\ UNCHANGED DownloadOthers

\* ------------------------------------------- localstore: sanitizeObjectName

\* An object name is the sequence of its segments between slashes:
\* "crops/job.jpg" is <<"crops", "job.jpg">>, "../evil.jpg" is
\* <<"..", "evil.jpg">>, "" is <<>>.
Segments == {"..", ".", "", "crops", "job.jpg", "evil.jpg", "a..b"}
MaxSegments == 3
ObjectNames == UNION {[1 .. n -> Segments] : n \in 0 .. MaxSegments}

ErrInvalidObjectName == "invalid object name"

\* path.Clean of a rooted path, segment by segment: empty and "." segments
\* are dropped, ".." removes the segment before it, and at the root ".."
\* is dropped.
RECURSIVE CleanRooted(_, _)
CleanRooted(kept, rest) ==
    IF rest = <<>> THEN kept
    ELSE LET seg == Head(rest)
         IN  IF seg \in {"", "."} THEN CleanRooted(kept, Tail(rest))
             ELSE IF seg = ".."
             THEN CleanRooted(IF kept = <<>> THEN kept ELSE SubSeq(kept, 1, Len(kept) - 1),
                              Tail(rest))
             ELSE CleanRooted(Append(kept, seg), Tail(rest))

\* strings.Contains(clean, ".."): a slash separates the segments, so the two
\* dots lie in one segment.
ContainsDotDot(clean) == \E i \in DOMAIN clean : clean[i] \in {"..", "a..b"}

\* sanitizeObjectName: clean is path.Clean("/" + objectName) without its
\* leading slash.
sanitizeObjectName(objectName) ==
    LET clean == CleanRooted(<<>>, objectName)
    IN  IF clean = <<>> THEN [clean |-> <<>>, err |-> ErrInvalidObjectName]
        ELSE IF ContainsDotDot(clean) THEN [clean |-> <<>>, err |-> ErrInvalidObjectName]
        ELSE [clean |-> clean, err |-> ""]

sanitizeObjectNameCall ==
    /\ call.fn = "sanitizeObjectName"
    /\ ~ret.done
    /\ ret' = [done |-> TRUE, out |-> sanitizeObjectName(call.objectName)]
    /\ UNCHANGED <<storeVars, bus, now, faults, reqVars, pubVars, workVars, histVars,
                   readVars, pollVars, clock, call>>

\* ---------------------------------------------------------- specification

InitSystem ==
    /\ jobs = <<>>
    /\ jobLock = [j \in JobIds |-> NoHolder]
    /\ outbox = <<>>
    /\ outboxLock = [o \in OutboxIds |-> NoHolder]
    /\ idem = <<>>
    /\ bus = {}
    /\ now = 0
    /\ faults = 0
    /\ rpc = [r \in Reqs |-> "new"]
    /\ rkey = [r \in Reqs |-> NoKey]
    /\ rbody = [r \in Reqs |-> ""]
    /\ rtx = [r \in Reqs |-> {}]
    /\ rcreated = [r \in Reqs |-> 0]
    /\ rresp = [r \in Reqs |-> 0]
    /\ rrespJob = [r \in Reqs |-> 0]
    /\ rreused = [r \in Reqs |-> FALSE]
    /\ rerr = [r \in Reqs |-> NoError]
    /\ rrespStatus = [r \in Reqs |-> ""]
    /\ effects = [r \in Reqs |-> [publishes |-> 0, writes |-> 0]]
    /\ ppc = [p \in Publishers |-> "claim"]
    /\ pbatch = [p \in Publishers |-> <<>>]
    /\ pidx = [p \in Publishers |-> 0]
    /\ ptx = [p \in Publishers |-> {}]
    /\ wpc = [w \in Workers |-> "idle"]
    /\ wjob = [w \in Workers |-> 0]
    /\ waff = [w \in Workers |-> 0]
    /\ wres = [w \in Workers |-> NoResult]
    /\ werr = [w \in Workers |-> ""]
    /\ wresp = [w \in Workers |-> 0]
    /\ acked = {}
    /\ startTrue = [j \in JobIds |-> 0]
    /\ pipelineRuns = [j \in JobIds |-> 0]
    /\ completes = [j \in JobIds |-> 0]
    /\ fails = [j \in JobIds |-> 0]
    /\ seenRet = [p \in Publishers |-> {}]
    /\ jobUpdatedAt = [j \in JobIds |-> 0]
    /\ clock = [p \in Workers \cup Pollers |-> 0]
    /\ gresp = [j \in JobIds |-> NoResponse]
    /\ gdone = [j \in JobIds |-> NoResponse]
    /\ qpc = [q \in Pollers |-> "claim"]
    /\ qjob = [q \in Pollers |-> 0]
    /\ claimTrue = [j \in JobIds |-> 0]

\* The services at start; no pipeline function is called on its own.
NoCall == [fn |-> ""]
NotReturned == [done |-> FALSE]
Init ==
    /\ InitSystem
    /\ call = NoCall
    /\ ret = NotReturned

\* A request without an Idempotency-Key header.
IngestPlain(r) ==
    \/ IngestReceive(r)
    \/ InsertStatements(r)
    \/ InsertCommit(r)
    \/ IngestPublish(r)
    \/ IngestMark(r)
    \/ IngestRecord(r)
    \/ IngestCrash(r)

\* A request with an Idempotency-Key header.
IngestKeyed(r) ==
    \/ IngestReceiveKeyed(r)
    \/ IdemLookup(r)
    \/ IdemInsert(r)
    \/ IngestPublish(r)
    \/ IngestMark(r)
    \/ IngestRecord(r)
    \/ IngestCrash(r)

PublisherActions(p) ==
    \/ ClaimBegin(p)
    \/ ClaimSelect(p)
    \/ ClaimCommit(p)
    \/ PublisherPublish(p)
    \/ PublisherMark(p)
    \/ PublisherRecord(p)
    \/ PublisherCrash(p)

WorkerActions(w) ==
    \/ WorkerDeliver(w)
    \/ StartJobExec(w)
    \/ StartJobCommit(w)
    \/ WorkerProcess(w)
    \/ WorkerFail(w)
    \/ WorkerComplete(w)
    \/ WorkerRespond(w)
    \/ WorkerCrash(w)

\* One job through the whole system: a request, a Publisher instance and the
\* Worker's concurrent handlers.
Next ==
    \/ IngestPlain(1)
    \/ PublisherActions("p1")
    \/ \E w \in Workers : WorkerActions(w)

Spec == Init /\ [][Next]_vars

\* The same with a client that polls GET /jobs/{id}.
NextRead ==
    \/ Next
    \/ \E j \in JobIds : GetJobsId(j)

SpecRead == Init /\ [][NextRead]_vars

PollActions(q) ==
    \/ ClaimJobSelect(q)
    \/ ClaimJobCommit(q)
    \/ PollFinish(q)
    \/ PollCrash(q)

\* Job claims: requests whose messages reach a push handler while poll
\* workers run against the same store.
NextClaim ==
    \/ \E r \in Reqs : IngestPlain(r)
    \/ WorkerActions("w1")
    \/ \E q \in Pollers : PollActions(q)

SpecClaim == Init /\ [][NextClaim]_vars

\* The Worker's handlers receiving the system's messages and foreign ones.
NextWorker ==
    \/ IngestPlain(1)
    \/ \E w \in Workers : WorkerActions(w) \/ WorkerDeliverForeign(w)

SpecWorker == Init /\ [][NextWorker]_vars

\* Ingest serving any body, valid or not, with or without a key.
IngestAny(r) ==
    \/ IngestReceiveAny(r)
    \/ InsertStatements(r)
    \/ InsertCommit(r)
    \/ IdemLookup(r)
    \/ IdemInsert(r)
    \/ IngestPublish(r)
    \/ IngestMark(r)
    \/ IngestRecord(r)
    \/ IngestCrash(r)

NextValidate == \E r \in Reqs : IngestAny(r)

SpecValidate == Init /\ [][NextValidate]_vars

\* A job through Ingest and a Worker instance, each stamping with its own
\* wall clock.
NextClock ==
    \/ IngestPlain(1)
    \/ WorkerActions("w1")
    \/ ClockTick("w1")

SpecClock == Init /\ [][NextClock]_vars

\* The outbox: requests and concurrent Publisher instances.
NextOutbox ==
    \/ \E r \in Reqs : IngestPlain(r)
    \/ \E p \in Publishers : PublisherActions(p)

SpecOutbox == Init /\ [][NextOutbox]_vars

\* Ingest: concurrent requests with and without an Idempotency-Key.
NextIngest ==
    \/ \E r \in Reqs : IngestPlain(r) \/ IngestKeyed(r)

SpecIngest == Init /\ [][NextIngest]_vars

\* Requests with an Idempotency-Key, a Publisher instance and a Worker handler.
NextKeyed ==
    \/ \E r \in Reqs : IngestKeyed(r)
    \/ PublisherActions("p1")
    \/ WorkerActions("w1")

SpecKeyed == Init /\ [][NextKeyed]_vars

\* Requests with one Idempotency-Key whose bodies are spellings of one crop
\* request, and a Publisher instance.
IngestRespelled(r) ==
    \/ IngestReceiveRespelled(r)
    \/ IdemLookup(r)
    \/ IdemInsert(r)
    \/ IngestPublish(r)
    \/ IngestMark(r)
    \/ IngestRecord(r)
    \/ IngestCrash(r)

NextRespelled ==
    \/ \E r \in Reqs : IngestRespelled(r)
    \/ PublisherActions("p1")

SpecRespelled == Init /\ [][NextRespelled]_vars

\* The outbox of one request under the schedule the deployment gives: every
\* Publisher instance keeps looping (a crashed one is restarted), and the
\* store and the bus fail at most MaxFaults times. Ingest may stop anywhere.
NextLive ==
    \/ IngestPlain(1)
    \/ \E p \in Publishers : PublisherActions(p)

PublisherLoop(p) ==
    \/ ClaimBegin(p)
    \/ ClaimSelect(p)
    \/ ClaimCommit(p)
    \/ PublisherPublish(p)
    \/ PublisherMark(p)
    \/ PublisherRecord(p)

SpecLive ==
    /\ Init
    /\ [][NextLive]_vars
    /\ \A p \in Publishers : WF_vars(PublisherLoop(p))

\* One job and the Worker under the schedule the bus gives: the bus keeps
\* every message and pushes it again and again, whatever the answers were, so
\* a handler that is free always gets a delivery and every handler that has
\* a step to take takes it (a statement waiting for a row lock gets the lock
\* once it is released, however often others take it: strong fairness); the
\* store fails and workers crash at most MaxFaults times altogether.
WorkerLoop(w) ==
    \/ WorkerDeliver(w)
    \/ StartJobExec(w)
    \/ StartJobCommit(w)
    \/ WorkerProcess(w)
    \/ WorkerFail(w)
    \/ WorkerComplete(w)
    \/ WorkerRespond(w)

NextRedeliver ==
    \/ IngestPlain(1)
    \/ \E w \in Workers : WorkerActions(w)

SpecRedeliver ==
    /\ Init
    /\ [][NextRedeliver]_vars
    /\ \A w \in Workers : SF_vars(WorkerLoop(w))

\* One job, a Worker handler, and a process calling FailJob on any job.
NextFailJob ==
    \/ IngestPlain(1)
    \/ WorkerActions("w1")
    \/ \E j \in JobIds, msg \in PipelineErrors : FailJobCall("w2", j, msg)

SpecFailJob == Init /\ [][NextFailJob]_vars

\* ClaimOutboxBatch called with any limit, next to two requests and a
\* Publisher instance that claims, locks and publishes rows.
InitClaimBatch ==
    /\ InitSystem
    /\ call \in [fn : {"ClaimOutboxBatch"}, limit : ClaimLimits]
    /\ ret = ClaimNotCalled
NextClaimBatch ==
    \/ \E r \in Reqs : IngestPlain(r)
    \/ PublisherActions("p1")
    \/ ClaimOutboxBatchCall
SpecClaimBatch == InitClaimBatch /\ [][NextClaimBatch]_vars

\* One request and the Publisher instances with a bus that may leave a
\* publish unanswered for ever: the steps of each loop other than the bus's
\* answer are taken when they can be, a context with a deadline expires, and
\* nothing obliges the bus to answer.
PublisherSteps(p) ==
    \/ ClaimBegin(p)
    \/ ClaimSelect(p)
    \/ ClaimCommit(p)
    \/ PublisherMark(p)
    \/ PublisherRecord(p)

NextPublish ==
    \/ IngestPlain(1)
    \/ \E p \in Publishers : PublisherActions(p)
    \/ \E site \in PublishSites : DeadlineExpires(site)

SpecPublish ==
    /\ Init
    /\ [][NextPublish]_vars
    /\ \A p \in Publishers : WF_vars(PublisherSteps(p))
    /\ \A site \in PublishSites : WF_vars(DeadlineExpires(site))

\* CropImage on its own, over every crop of CropInputs.
InitCrop ==
    /\ InitSystem
    /\ call \in [fn : {"CropImage"}, bounds : CropBounds, crop : CropInputs]
    /\ ret = NotReturned
NextCrop == CropImageCall
SpecCrop == InitCrop /\ [][NextCrop]_vars

\* Download on its own, against a server that answers anything.
InitDownload ==
    /\ InitSystem
    /\ call \in DownloadInputs
    /\ ret = DownloadNotStarted
NextDownload ==
    \/ DownloadStart
    \/ DownloadSend
    \/ DownloadRedirect
    \/ DownloadRead
SpecDownload == InitDownload /\ [][NextDownload]_vars

\* sanitizeObjectName on its own, over every name of ObjectNames.
InitSanitize ==
    /\ InitSystem
    /\ call \in [fn : {"sanitizeObjectName"}, objectName : ObjectNames]
    /\ ret = NotReturned
NextSanitize == sanitizeObjectNameCall
SpecSanitize == InitSanitize /\ [][NextSanitize]_vars

\* ------------------------------------------------------------------ claims

\* C1: for every job, at most one StartJob call returns claimed = true,
\* whatever the interleaving of concurrent and repeated calls.
C1_AtMostOneClaim == \A j \in JobIds : startTrue[j] <= 1

\* A StartJob call has claimed the job and another handler's StartJob for the
\* same job has found no row to update.
C1_Witness ==
    \E j \in JobIds, w \in Workers :
        /\ startTrue[j] = 1
        /\ wjob[w] = j
        /\ wpc[w] = "commit"
        /\ waff[w] = 0

\* The status changes of section 4.5.
LegalTransitions ==
    {<<"pending", "in_progress">>, <<"in_progress", "done">>, <<"in_progress", "failed">>}

\* C2: every change of a job's status is pending -> in_progress,
\* in_progress -> done or in_progress -> failed.
C2_StatusMonotone ==
    [][\A j \in DOMAIN jobs :
          jobs'[j].status # jobs[j].status
              => <<jobs[j].status, jobs'[j].status>> \in LegalTransitions]_vars

\* A job has failed and its message is delivered again.
C2_Witness ==
    \E j \in DOMAIN jobs, w \in Workers :
        /\ jobs[j].status = "failed"
        /\ wjob[w] = j
        /\ wpc[w] = "exec"

\* C3: for every job the pipeline runs at most once, at most one of
\* CompleteJob and FailJob is executed, and a done job was completed exactly
\* once.
C3_ProcessedOnce ==
    \A j \in JobIds :
        /\ pipelineRuns[j] <= 1
        /\ completes[j] + fails[j] <= 1
        /\ (JobExists(j) /\ jobs[j].status = "done") => completes[j] = 1

\* A job is done and a later delivery of its message is in StartJob.
C3_Witness ==
    \E j \in DOMAIN jobs, w \in Workers :
        /\ jobs[j].status = "done"
        /\ completes[j] = 1
        /\ wjob[w] = j
        /\ wpc[w] = "commit"
        /\ waff[w] = 0

\* C4: InsertJobWithOutbox is atomic. In every state the job row of a request
\* is visible exactly when its outbox row is, and a call that returned
\* without error left both.
C4_InsertAtomic ==
    \A r \in Reqs :
        /\ JobExists(r) <=> (\E o \in DOMAIN outbox : outbox[o].job_id = r)
        /\ (rkey[r] = NoKey /\ rpc[r] \in {"publish", "mark", "record"})
                => JobExists(r) /\ OutboxExists(r)

\* An InsertJobWithOutbox call has failed and left no row, while another
\* call committed both of its rows.
C4_Witness ==
    \E r1, r2 \in Reqs :
        /\ rkey[r1] = NoKey /\ rpc[r1] = "done" /\ rerr[r1] = ErrStore
        /\ ~JobExists(r1) /\ ~OutboxExists(r1)
        /\ rkey[r2] = NoKey /\ rpc[r2] = "publish"
        /\ JobExists(r2) /\ OutboxExists(r2)

\* C5: every job Ingest created, with or without an idempotency key, has
\* exactly one outbox row whose job_id is the job's id.
C5_OneOutboxRowPerJob ==
    \A j \in DOMAIN jobs :
        Cardinality({o \in DOMAIN outbox : outbox[o].job_id = j}) = 1

\* Two requests with the same key and body were served, the second as a
\* replay, and there is one job with its one outbox row.
C5_Witness ==
    \E r1, r2 \in Reqs :
        /\ rpc[r1] = "done" /\ rresp[r1] = 201
        /\ rpc[r2] = "done" /\ rresp[r2] = 200
        /\ rkey[r1] = rkey[r2]
        /\ DOMAIN jobs = {r1}
        /\ DOMAIN outbox = {r1}

\* A request answered with a job: 201 for a new one, 200 for a replay.
Accepted(r) == rpc[r] = "done" /\ rresp[r] \in {200, 201}

\* C10: of two served requests with the same idempotency key, those with
\* equal hashes that were accepted carry the same job id; with different
\* hashes at most one is accepted, and the one that met the conflict is
\* answered 409 and has created no job, outbox or idempotency row.
C10_Idempotency ==
    \A r1, r2 \in Reqs :
        (r1 # r2 /\ rpc[r1] = "done" /\ rpc[r2] = "done"
            /\ rkey[r1] # NoKey /\ rkey[r1] = rkey[r2])
        => /\ (hashBody(rbody[r1]) = hashBody(rbody[r2]) /\ Accepted(r1) /\ Accepted(r2))
                => rrespJob[r1] = rrespJob[r2]
           /\ hashBody(rbody[r1]) # hashBody(rbody[r2])
                => /\ ~(Accepted(r1) /\ Accepted(r2))
                   /\ rerr[r2] = ErrIdempotencyKeyConflict
                        => /\ rresp[r2] = 409
                           /\ ~JobExists(r2)
                           /\ ~OutboxExists(r2)
                           /\ idem[rkey[r2]].job_id # r2

\* Two requests with one key and different bodies were served: the first
\* created its job, the later one was refused with 409.
C10_Witness ==
    \E r1, r2 \in Reqs :
        /\ rkey[r1] # NoKey /\ rkey[r1] = rkey[r2]
        /\ rbody[r1] # rbody[r2]
        /\ rpc[r1] = "done" /\ rresp[r1] = 201
        /\ rpc[r2] = "done" /\ rresp[r2] = 409

\* C6: every outbox row is eventually published to the bus and marked
\* published, while the Publisher loops keep running and the store and the
\* bus fail only finitely often, whatever happens to the request in Ingest.
C6_EventuallyPublished ==
    \A o \in OutboxIds :
        OutboxExists(o) ~> (OutboxExists(o) /\ outbox[o].published /\ o \in acked)

\* Ingest crashed after the commit, before its own publish, and the row is
\* published all the same.
C6_Witness ==
    \E o \in DOMAIN outbox :
        /\ rpc[o] = "crashed"
        /\ outbox[o].published
        /\ outbox[o].attempts >= 1

\* C7: a row's published_at is set only after the bus acknowledged a publish
\* of that row, in the Publisher loop and in Ingest's publishJob alike.
C7_PublishedOnlyAfterAck ==
    \A o \in DOMAIN outbox : outbox[o].published => o \in acked

\* One row is marked published after its acknowledgement; another, whose
\* publish failed, has its error recorded and stays unpublished.
C7_Witness ==
    \E o1, o2 \in DOMAIN outbox :
        /\ outbox[o1].published /\ o1 \in acked
        /\ ~outbox[o2].published /\ o2 \notin acked /\ outbox[o2].last_error.Valid

\* C8: two ClaimOutboxBatch calls whose transactions overlap in time return
\* disjoint sets of rows. seenRet[p] holds what other calls returned since
\* p's call began its transaction.
C8_OverlappingClaimsDisjoint ==
    [][\A p \in Publishers :
          (ppc[p] = "commit" /\ ppc'[p] = "publish")
              => Range(pbatch[p]) \cap seenRet[p] = {}]_vars

\* The rows of a committed claim for which the publisher has run neither
\* MarkOutboxPublished nor RecordOutboxError yet.
Processing(p) ==
    IF ppc[p] \in {"publish", "mark", "record"}
    THEN {pbatch[p][i] : i \in pidx[p]..Len(pbatch[p])}
    ELSE {}

\* C9: a row one publisher has claimed and is still processing is not
\* returned to another publisher's ClaimOutboxBatch.
C9_NoReclaimWhileProcessing ==
    \A p, q \in Publishers : p # q => Processing(p) \cap Processing(q) = {}

\* The requests that carry key k, and those of them that created a job.
WithKey(k) == {r \in Reqs : rkey[r] = k}

Creators(k) == {r \in WithKey(k) : JobExists(r)}

\* C11: when all requests with one key and one hash have been served without
\* a store error, exactly one of them created the job and answered 201, the
\* others answered 200 with that job, and the key has one job row, one
\* outbox row and one idempotency row; a request that lost the race for the
\* key left no row behind.
C11_OneWinner ==
    \A k \in Keys :
        /\ Cardinality(Creators(k)) <= 1
        /\ Creators(k) = {o \in WithKey(k) : OutboxExists(o)}
        /\ Creators(k) = IF IdemExists(k) THEN {idem[k].job_id} ELSE {}
        /\ (/\ WithKey(k) # {}
            /\ \A r \in WithKey(k) : rpc[r] = "done" /\ rerr[r] = NoError
            /\ \A r1, r2 \in WithKey(k) : hashBody(rbody[r1]) = hashBody(rbody[r2]))
           => /\ Cardinality({r \in WithKey(k) : rresp[r] = 201}) = 1
              /\ \A r \in WithKey(k) :
                    /\ rresp[r] \in {200, 201}
                    /\ rresp[r] = 201 <=> r \in Creators(k)
                    /\ rrespJob[r] = idem[k].job_id

\* Two requests with one key and one body raced: one created the job and
\* answered 201, the other lost the insert and is about to re-read.
C11_Witness ==
    \E r1, r2 \in Reqs :
        /\ rkey[r1] # NoKey /\ rkey[r1] = rkey[r2]
        /\ rbody[r1] = rbody[r2]
        /\ rpc[r1] = "done" /\ rresp[r1] = 201
        /\ rpc[r2] = "idem_reread"
        /\ Cardinality(DOMAIN jobs) = 1

\* C12: once the idempotency row of a key exists, its request_hash and
\* job_id never change.
C12_IdemImmutable ==
    [][\A k \in DOMAIN idem : k \in DOMAIN idem' /\ idem'[k] = idem[k]]_vars

\* The row of a key still names the first request's hash and job after a
\* request with the same key and another body was refused.
C12_Witness ==
    \E r1, r2 \in Reqs :
        /\ IdemExists(rkey[r2])
        /\ idem[rkey[r2]] = [request_hash |-> hashBody(rbody[r1]), job_id |-> r1]
        /\ rpc[r2] = "done" /\ rerr[r2] = ErrIdempotencyKeyConflict
        /\ hashBody(rbody[r2]) # idem[rkey[r2]].request_hash

\* C13: for every outbox row, published_at once set is never reset to NULL
\* and attempts never decreases.
C13_OutboxMonotone ==
    [][\A o \in DOMAIN outbox :
          /\ outbox[o].published => outbox'[o].published
          /\ outbox'[o].attempts >= outbox[o].attempts]_vars

\* RecordOutboxError has run on a row that was already marked published: the
\* row carries the error and is still published.
C13_Witness ==
    \E o \in DOMAIN outbox :
        /\ outbox[o].published
        /\ outbox[o].last_error.Valid
        /\ outbox[o].attempts >= 1

\* C14 (J2): in every reachable state a job's result is non-null exactly when
\* its status is done.
C14_ResultIffDone ==
    \A j \in DOMAIN jobs : jobs[j].result.Valid <=> jobs[j].status = "done"

\* A job that CompleteJob made done carries the result of its pipeline run.
C14_Witness ==
    \E j \in DOMAIN jobs :
        /\ jobs[j].status = "done"
        /\ jobs[j].result = ResultOf(j)
        /\ completes[j] = 1

\* C15 (J3): in every reachable state a job's error is non-null exactly when
\* its status is failed.
C15_ErrorIffFailed ==
    \A j \in DOMAIN jobs : jobs[j].error.Valid <=> jobs[j].status = "failed"

\* A job that FailJob made failed carries the error of its pipeline run.
C15_Witness ==
    \E j \in DOMAIN jobs :
        /\ jobs[j].status = "failed"
        /\ jobs[j].error \in {Text(e) : e \in PipelineErrors}
        /\ fails[j] = 1

\* C16 (P7): once a GET for a job has returned status done, every later GET
\* for it that the store answers returns status done with the same
\* croppedImageUrl, whatever deliveries and worker activity come in between.
C16_DoneIsStable ==
    \A j \in JobIds :
        gdone[j] # NoResponse =>
            \/ gresp[j].code = 500
            \/ /\ gresp[j].code = 200
               /\ gresp[j].status = "done"
               /\ gresp[j].croppedImageUrl = gdone[j].croppedImageUrl

\* A GET has returned done with the URL of the job's result, and a handler
\* has answered a duplicate delivery of the job's message since the claim.
C16_Witness ==
    \E j \in JobIds, w \in Workers :
        /\ gdone[j].status = "done"
        /\ gresp[j] = gdone[j]
        /\ gresp[j].croppedImageUrl = [Valid |-> TRUE, String |-> j]
        /\ wjob[w] = j /\ wpc[w] = "done" /\ wresp[w] = 200 /\ wres[w] = NoResult

\* C17: for every job, over all StartJob and ClaimJob calls of push handlers
\* and poll workers in any interleaving, at most one call claims the job.
C17_OneClaimer == \A j \in JobIds : startTrue[j] + claimTrue[j] <= 1

\* A poll worker's ClaimJob returned the job while a push handler's StartJob
\* for the same job found nothing to update, and the other poll worker's
\* ClaimJob selected a different job.
C17_Witness ==
    \E j \in JobIds, q1, q2 \in Pollers :
        /\ claimTrue[j] = 1
        /\ qjob[q1] = j /\ qpc[q1] = "process"
        /\ wjob["w1"] = j /\ wpc["w1"] = "commit" /\ waff["w1"] = 0
        /\ q2 # q1 /\ qpc[q2] = "update" /\ qjob[q2] # j

\* C18: a request with an idempotency key that created the job answers 201
\* after exactly one publishJob call; a replay answers 200 with the existing
\* job, calls publishJob never and changes no job or outbox row.
C18_ReplayHasNoEffect ==
    \A r \in Reqs :
        (rkey[r] # NoKey /\ rpc[r] = "done" /\ rerr[r] = NoError) =>
            IF rreused[r]
            THEN /\ rresp[r] = 200
                 /\ rrespJob[r] = idem[rkey[r]].job_id
                 /\ JobExists(rrespJob[r])
                 /\ effects[r] = [publishes |-> 0, writes |-> 0]
            ELSE /\ rresp[r] = 201
                 /\ rrespJob[r] = r
                 /\ idem[rkey[r]].job_id = r
                 /\ effects[r].publishes = 1

\* One request created the job, published it and got 201; a replay of it got
\* 200 with that job and left no trace.
C18_Witness ==
    \E r1, r2 \in Reqs :
        /\ rpc[r1] = "done" /\ rresp[r1] = 201 /\ effects[r1].publishes = 1
        /\ r1 \in bus
        /\ rpc[r2] = "done" /\ rresp[r2] = 200 /\ rreused[r2] /\ rrespJob[r2] = r1
        /\ effects[r2] = [publishes |-> 0, writes |-> 0]

\* C19 (R2): the response to a replay (same key, same body) equals the
\* response of the request that created the job in every field but
\* updated_at, whatever the job's state at the time of the replay: the same
\* id and the same status (croppedImageUrl and error are nil in both).
C19_ReplayResponseIdentical ==
    \A r1, r2 \in Reqs :
        (/\ rpc[r1] = "done" /\ rerr[r1] = NoError /\ ~rreused[r1]
         /\ rpc[r2] = "done" /\ rerr[r2] = NoError /\ rreused[r2]
         /\ rkey[r2] = rkey[r1] /\ rbody[r2] = rbody[r1])
            => /\ rrespJob[r2] = rrespJob[r1]
               /\ rrespStatus[r2] = rrespStatus[r1]

\* C20: the Worker answers 404 to a message whose jobId names a job the
\* store does not have, and 400 to a message it cannot decode (store errors,
\* answered 500, aside).
C20_MissingJobIs404 ==
    \A w \in Workers :
        (wpc[w] = "done" /\ wresp[w] # 500) =>
            /\ wjob[w] \in UnknownJobIds => wresp[w] = 404
            /\ wjob[w] = 0 => wresp[w] = 400

\* A body that decodes to a request without imageUrl or with a width or
\* height that is not positive.
BadCrop(raw) ==
    /\ Decode(raw).ok
    /\ Decode(raw).imageUrl = "" \/ Decode(raw).width <= 0 \/ Decode(raw).height <= 0

\* C21: a create request with empty or missing imageUrl, width <= 0 or
\* height <= 0 is answered 400 and leaves the store unchanged: no job, outbox
\* or idempotency row of it exists and it published nothing, with or without
\* an Idempotency-Key header.
C21_InvalidRejected ==
    \A r \in Reqs :
        (rpc[r] # "new" /\ BadCrop(rbody[r])) =>
            /\ rpc[r] = "done"
            /\ rresp[r] = 400
            /\ ~JobExists(r) /\ ~OutboxExists(r)
            /\ \A k \in DOMAIN idem : idem[k].job_id # r
            /\ r \notin bus
            /\ effects[r] = [publishes |-> 0, writes |-> 0]

\* A request with a key and a request without one were both rejected, for
\* the height and for the imageUrl, next to nothing in the store.
C21_Witness ==
    \E r1, r2 \in Reqs :
        /\ rkey[r1] # NoKey /\ rbody[r1] = "hneg" /\ rresp[r1] = 400
        /\ rkey[r2] = NoKey /\ rbody[r2] = "nourl" /\ rresp[r2] = 400
        /\ jobs = <<>> /\ outbox = <<>> /\ idem = <<>> /\ bus = {}

\* C22: whenever GET /jobs/{id} returns status failed the response's error
\* is non-null, and the error is non-null only when the status is failed.
C22_FailedHasError ==
    \A j \in JobIds :
        gresp[j].code = 200 => (gresp[j].status = "failed" <=> gresp[j].error.Valid)

\* A GET returned a failed job with the error text of its pipeline run.
C22_Witness ==
    \E j \in JobIds :
        /\ gresp[j].code = 200
        /\ gresp[j].status = "failed"
        /\ gresp[j].error = [Valid |-> TRUE, String |-> ErrCropOutOfBounds]

\* C23 (J4): for every job updated_at >= created_at in every reachable
\* state, each timestamp read from the clock of the service that writes it,
\* to the second.
C23_UpdatedNotBeforeCreated ==
    \A j \in DOMAIN jobs : jobUpdatedAt[j] >= JobCreatedAt(j)

\* The verdict the rectangle arithmetic gives for a crop of an image.
CropVerdict(bounds, crop) ==
    IF crop.Width <= 0 \/ crop.Height <= 0 \/ crop.X < 0 \/ crop.Y < 0
    THEN ErrCropInvalid
    ELSE IF crop.X + crop.Width > bounds.Dx \/ crop.Y + crop.Height > bounds.Dy
    THEN ErrCropOutOfBounds
    ELSE ""

\* C24: CropImage accepts a crop exactly when X >= 0, Y >= 0, Width > 0,
\* Height > 0, X + Width <= image width and Y + Height <= image height; it
\* returns ErrCropInvalid for a non-positive size or a negative origin and
\* ErrCropOutOfBounds when the rectangle extends past the image.
C24_CropAcceptedIffInside ==
    (call.fn = "CropImage" /\ ret.done) =>
        ret.out.err = CropVerdict(call.bounds, call.crop)

\* A raw URL whose scheme is neither http nor https, in any case of letters.
OtherScheme(rawURL) == ToLower(SchemeAsWritten(rawURL)) \notin {"http", "https"}

\* C25: Download rejects with ErrInvalidURL every URL whose scheme is not http
\* or https, before any request is made, and rejects every redirect whose
\* target has another scheme: no request is ever sent to such a URL.
C25_OtherSchemeRejected ==
    call.fn = "Download" =>
        /\ (OtherScheme(call.rawURL) /\ ret.pc # "start") =>
               /\ ret.done
               /\ ret.err = ErrInvalidURL
               /\ ret.via = <<>>
        /\ \A i \in DOMAIN ret.via : ~OtherScheme(ret.via[i])
        /\ \A i \in DOMAIN ret.locations :
               OtherScheme(ret.locations[i]) =>
                   ret.done /\ ret.err \in {ErrInvalidURL, ErrTooManyRedirects, ErrTransport}

C25_Witness ==
    /\ call.fn = "Download"
    /\ ret.done
    /\ ret.err = ErrInvalidURL
    /\ Len(ret.via) = 1
    /\ ret.locations = <<"file:///tmp/nope">>

\* C26: when MaxBytes > 0, Download never returns more than MaxBytes bytes of
\* data; of a response it reads (status 2xx) it returns ErrTooLarge if the
\* declared Content-Length exceeds MaxBytes, and if the body read exceeds
\* MaxBytes, whatever Content-Length says (absent and understated included).
C26_NeverMoreThanMaxBytes ==
    (call.fn = "Download" /\ ret.done /\ call.MaxBytes > 0) =>
        /\ ret.data <= call.MaxBytes
        /\ (ret.resp.kind = "response" /\ ret.resp.StatusCode = 200) =>
               /\ ret.resp.ContentLength > call.MaxBytes => ret.err = ErrTooLarge
               /\ (ret.resp.body > call.MaxBytes /\ ~ret.resp.breaks) =>
                      ret.err = ErrTooLarge

C26_Witness ==
    /\ call.fn = "Download"
    /\ call.MaxBytes = 2
    /\ ret.done
    /\ ret.err = ErrTooLarge
    /\ ret.resp.kind = "response"
    /\ ret.resp.ContentLength \in {-1, 1}
    /\ ret.resp.body = 3

\* An object name with a parent-directory segment.
HasParentSegment(objectName) == \E i \in DOMAIN objectName : objectName[i] = ".."

\* C27: sanitizeObjectName returns an error for every object name with a
\* parent-directory segment (such as "../evil.jpg"), and returns the
\* well-formed relative name "crops/job.jpg" unchanged.
C27_TraversalRejected ==
    (call.fn = "sanitizeObjectName" /\ ret.done) =>
        /\ HasParentSegment(call.objectName) => ret.out.err # ""
        /\ call.objectName = <<"crops", "job.jpg">> =>
               ret.out = [clean |-> <<"crops", "job.jpg">>, err |-> ""]

\* A job in a terminal status.
Terminal(j) == JobExists(j) /\ jobs[j].status \in {"done", "failed"}

\* While no store call fails and no worker crashes, a claimed job does
\* reach a terminal status.
ClaimedTerminalWithoutFaults ==
    \A j \in JobIds : (startTrue[j] > 0) ~> (Terminal(j) \/ faults > 0)

\* C28: every job a worker has claimed (StartJob returned true) eventually
\* reaches a terminal status, done or failed, when the bus keeps redelivering
\* and the store becomes available again.
C28_ClaimedEventuallyTerminal ==
    \A j \in JobIds : (startTrue[j] > 0) ~> Terminal(j)

\* Handler w's StartJob returns now, without a store error, and the handler
\* goes on.
StartJobReturns(w) ==
    /\ wpc[w] = "commit"
    /\ wpc'[w] \notin {"commit", "idle"}
    /\ faults' = faults

\* C29: when a delivered message's StartJob returns claimed = false, the
\* Worker answers 200 and does nothing else: it does not invoke the pipeline
\* and does not modify the job row (status, result, error and updated_at all
\* unchanged).
C29_UnclaimedIsNoOp ==
    [][\A w \in Workers :
         (StartJobReturns(w) /\ waff[w] = 0) =>
             /\ wpc'[w] = "done"
             /\ wresp'[w] = 200
             /\ jobs' = jobs
             /\ jobUpdatedAt' = jobUpdatedAt
             /\ pipelineRuns' = pipelineRuns
             /\ completes' = completes
             /\ fails' = fails]_vars

C29_Witness ==
    /\ wpc["w1"] = "done"
    /\ wresp["w1"] = 200
    /\ JobExists(wjob["w1"])
    /\ jobs[wjob["w1"]].status = "in_progress"
    /\ jobUpdatedAt[wjob["w1"]] < clock["w1"]

\* C30: after a pipeline error the Worker records the job as failed with the
\* error text and answers 5xx; every later delivery of a message for the job
\* is acknowledged with 200 and leaves the job failed with the same error.
C30_FirstFailureSticky ==
    [][/\ \A w \in Workers :
            /\ (wpc[w] = "fail" /\ wpc'[w] = "done") =>
                   /\ wresp'[w] = 500
                   /\ faults' = faults =>
                          /\ jobs'[wjob[w]].status = "failed"
                          /\ jobs'[wjob[w]].error = Text(werr[w])
            /\ (StartJobReturns(w) /\ JobExists(wjob[w])
                  /\ jobs[wjob[w]].status = "failed") =>
                   (wpc'[w] = "done" /\ wresp'[w] = 200)
       /\ \A j \in DOMAIN jobs :
            jobs[j].status = "failed" =>
                (jobs'[j] = jobs[j] /\ jobUpdatedAt'[j] = jobUpdatedAt[j])]_vars

C30_Witness ==
    /\ wpc["w1"] = "done"
    /\ wresp["w1"] = 200
    /\ JobExists(wjob["w1"])
    /\ jobs[wjob["w1"]].status = "failed"
    /\ jobs[wjob["w1"]].error = Text(ErrCropOutOfBounds)
    /\ fails[wjob["w1"]] = 1

\* C31: FailJob is a no-op on a job that is already terminal: called on a job
\* with status done or failed it leaves status, result and error unchanged.
C31_FailJobNoOpOnTerminal ==
    [][\A j \in DOMAIN jobs :
         jobs[j].status \in {"done", "failed"} => jobs'[j] = jobs[j]]_vars

\* C32: with Ingest's opportunistic publish and the Publisher loops running
\* concurrently on the same outbox row, a row whose published_at is non-null
\* has last_error null in every reachable state.
C32_PublishedHasNoError ==
    \A o \in DOMAIN outbox : outbox[o].published => outbox[o].last_error = NullString

\* Publisher p takes a step while it holds a message, other than a
\* MarkOutboxPublished the store accepted: a crash, a failed or acknowledged
\* publish, a RecordOutboxError, a mark the store refused.
GivesUp(p) ==
    /\ ppc[p] \in {"publish", "mark", "record"}
    /\ <<ppc[p], pidx[p]>> # <<ppc'[p], pidx'[p]>>
    /\ ppc[p] = "mark" => faults' # faults

\* The row publisher p holds at its publish, mark or record step.
Held(p) == pbatch[p][pidx[p]]

\* C33: a row claimed by a Publisher is never lost. A Publisher that crashes
\* after ClaimOutboxBatch committed, or whose publish fails, leaves
\* published_at as it is; and a row that is still unpublished after a claim is
\* returned again by a later ClaimOutboxBatch, which increments its attempts
\* again (unless another publish of the row has marked it published first).
C33_ClaimedRowNotLost ==
    /\ [][\A p \in Publishers :
            GivesUp(p) =>
                outbox'[Held(p)].published = outbox[Held(p)].published]_vars
    /\ \A o \in OutboxIds : \A n \in 1 .. MaxFaults + 1 :
          (OutboxExists(o) /\ ~outbox[o].published /\ outbox[o].attempts = n)
              ~> (OutboxExists(o) /\ (outbox[o].published \/ outbox[o].attempts > n))

\* A row claimed a second time by the Publisher that crashed or failed on it.
C33_Witness ==
    /\ faults = 1
    /\ ppc["p1"] = "publish"
    /\ pbatch["p2"] = <<>>
    /\ ~outbox[Held("p1")].published
    /\ outbox[Held("p1")].attempts = 2
    /\ outbox[Held("p1")].last_error = Text(ErrPublish)

\* Publisher p's ClaimOutboxBatch commits and returns its messages.
ClaimReturns(p) ==
    /\ ppc[p] = "commit"
    /\ ppc'[p] # "commit"
    /\ faults' = faults

\* C34: ClaimOutboxBatch changes only attempts (+1) and updated_at of the rows
\* it returns: it never changes published_at, last_error, payload or job_id
\* of any row, and leaves every row it does not return unchanged.
C34_ClaimChangesAttemptsOnly ==
    [][\A p \in Publishers :
         /\ ClaimReturns(p) =>
              /\ DOMAIN outbox' = DOMAIN outbox
              /\ \A o \in DOMAIN outbox :
                   outbox'[o] = IF o \in Range(pbatch[p])
                                THEN [outbox[o] EXCEPT !.attempts = @ + 1]
                                ELSE outbox[o]
         /\ (ppc[p] \in {"claim", "select", "commit"} /\ ppc'[p] # ppc[p]
               /\ ~ClaimReturns(p)) => outbox' = outbox]_vars

\* A claim returned row 1 and not row 2.
C34_Witness ==
    /\ ppc["p1"] = "publish"
    /\ pbatch["p1"] = <<1>>
    /\ OutboxExists(1) /\ outbox[1].attempts = 1
    /\ OutboxExists(2) /\ outbox[2].attempts = 0

\* The committed ClaimOutboxBatch calls that return row o in this step.
ReturnedNow(o) ==
    Cardinality({p \in Publishers : ClaimReturns(p) /\ o \in Range(pbatch[p])})

\* C35: for every outbox row, attempts equals the number of committed
\* ClaimOutboxBatch calls that returned the row, whatever the outcome of each
\* publish: a row starts with attempts 0, every step adds to attempts the
\* claims that return the row in that step, and nothing else changes it, in
\* particular not Ingest's opportunistic publish, successful or failed.
C35_AttemptsCountsClaims ==
    [][\A o \in DOMAIN outbox' :
         outbox'[o].attempts =
             IF o \in DOMAIN outbox THEN outbox[o].attempts + ReturnedNow(o) ELSE 0]_vars

\* Ingest's publish of row 1 failed and was recorded without a claim; row 2
\* was returned by two claims.
C35_Witness ==
    /\ OutboxExists(1) /\ OutboxExists(2)
    /\ rpc[1] = "done"
    /\ outbox[1].last_error = Text(ErrPublish)
    /\ outbox[1].attempts = 0
    /\ outbox[2].attempts = 2

\* rows is a batch ClaimOutboxBatch(limit) may return in the current state:
\* at most limit rows, all unpublished and not locked by another claimer,
\* oldest first, and no row left out that is older than one taken or that
\* would still fit.
OldestUnpublished(rows, limit) ==
    /\ Len(rows) <= limit
    /\ \A i \in DOMAIN rows :
          /\ OutboxExists(rows[i])
          /\ ~outbox[rows[i]].published
          /\ outboxLock[rows[i]] = NoHolder
    /\ \A i, k \in DOMAIN rows :
          i < k => (rows[i] # rows[k]
                    /\ outbox[rows[i]].created_at <= outbox[rows[k]].created_at)
    /\ \A c \in DOMAIN outbox :
          (~outbox[c].published /\ outboxLock[c] = NoHolder /\ c \notin Range(rows)) =>
              /\ Len(rows) = limit
              /\ \A i \in DOMAIN rows : outbox[rows[i]].created_at <= outbox[c].created_at

\* C36: ClaimOutboxBatch(limit) returns at most limit rows, each with
\* published_at null at the time of the claim, the oldest such rows by
\* created_at among those not locked by another claimer; with limit <= 0 it
\* returns no rows and does not touch the store; a published row is never
\* returned.
C36_ClaimsOldestUnpublished ==
    [][/\ (call.fn = "ClaimOutboxBatch" /\ ~ret.done /\ ret'.done) =>
            IF call.limit <= 0
            THEN ret'.rows = <<>> /\ ret'.err = "" /\ UNCHANGED <<storeVars, faults>>
            ELSE ret'.err = "" => OldestUnpublished(ret'.rows, call.limit)
       /\ \A p \in Publishers :
            (ppc[p] = "select" /\ ppc'[p] = "commit") =>
                OldestUnpublished(pbatch'[p], BatchSize)]_vars

\* A call with limit 1 returned the older of two unpublished rows.
C36_Witness ==
    /\ call.fn = "ClaimOutboxBatch"
    /\ call.limit = 1
    /\ ret.done
    /\ Len(ret.rows) = 1
    /\ \E c \in DOMAIN outbox :
          /\ c # ret.rows[1]
          /\ ~outbox[c].published
          /\ outbox[c].attempts = 0
          /\ outbox[c].created_at > outbox[ret.rows[1]].created_at

\* A step in which a statement of publisher p's ClaimOutboxBatch fails (or
\* the process dies inside the call).
ClaimFails(p) ==
    /\ InClaimTx(p) \/ ppc[p] = "claim"
    /\ ppc'[p] = "claim"
    /\ faults' # faults

\* C37: if any step of ClaimOutboxBatch fails (select, scan, an attempts
\* update, or the commit), the whole transaction is rolled back: no row
\* changes, all its row locks are released, and the caller receives an error
\* and no rows.
C37_FailedClaimRollsBack ==
    [][/\ \A p \in Publishers :
            ClaimFails(p) =>
                /\ outbox' = outbox
                /\ \A o \in OutboxIds : outboxLock'[o] # p
                /\ pbatch'[p] = <<>>
                /\ ptx'[p] = {}
       /\ (call.fn = "ClaimOutboxBatch" /\ ~ret.done /\ ret'.done /\ ret'.err # "") =>
            /\ ret'.rows = <<>>
            /\ outbox' = outbox
            /\ outboxLock' = outboxLock]_vars

\* The one fault so far hit the Publisher's claim (Ingest is still before its
\* publish and the direct call has not run): the row has no claim counted and
\* is not locked, and the loop is at its next tick with no messages.
C37_Witness ==
    /\ faults = 1
    /\ ~ret.done
    /\ ppc["p1"] = "claim"
    /\ pbatch["p1"] = <<>>
    /\ rpc[1] = "publish"
    /\ rpc[2] = "new"
    /\ OutboxExists(1)
    /\ outbox[1].attempts = 0
    /\ outboxLock[1] = NoHolder

\* C38: no store transaction is open, and no row lock is held, by a process
\* while it performs a bus publish or runs the image pipeline:
\* ClaimOutboxBatch, StartJob and InsertJobWithOutbox have committed or rolled
\* back before the Publisher, Ingest or the Worker starts the bus call or the
\* download.
C38_NoTransactionAcrossCalls ==
    /\ \A p \in Publishers :
          ppc[p] = "publish" =>
              (ptx[p] = {} /\ \A o \in OutboxIds : outboxLock[o] # p)
    /\ \A r \in Reqs :
          rpc[r] = "publish" => (rtx[r] = {} /\ JobExists(r) /\ OutboxExists(r))
    /\ \A w \in Workers :
          wpc[w] = "get" => (waff[w] = 0 /\ \A j \in JobIds : jobLock[j] # w)

\* Ingest is about to publish while a Worker handler, which got the job's
\* message from the Publisher's publish, is about to run the pipeline.
C38_Witness ==
    /\ rpc[1] = "publish"
    /\ \E w \in Workers : wpc[w] = "get"

\* The publish of Ingest's publishJob is bounded: the request leaves its
\* publish step, answered or not by the bus.
IngestPublishBounded ==
    \A r \in Reqs : (rpc[r] = "publish") ~> (rpc[r] # "publish")

\* C39: in the Publisher loop each publish is bounded: a publish the bus
\* neither acknowledges nor fails is abandoned after a bounded wait and
\* treated as a failure, so the loop always proceeds to the remaining
\* messages of the batch and to the next tick.
C39_PublishBounded ==
    \A p \in Publishers : (ppc[p] = "publish") ~> (ppc[p] # "publish")

\* C40: two create requests with the same key whose raw bodies decode to the
\* same crop request are treated as the same request: neither is answered
\* as a conflict, and when both are answered with a job it is the same job.
C40_HashOverCanonicalBody ==
    \A r1, r2 \in Reqs :
        (r1 # r2 /\ rpc[r1] = "done" /\ rpc[r2] = "done"
            /\ rkey[r1] # NoKey /\ rkey[r1] = rkey[r2]
            /\ Canonical(rbody[r1]) = Canonical(rbody[r2]))
        => /\ rresp[r2] # 409
           /\ rerr[r2] # ErrIdempotencyKeyConflict
           /\ (Accepted(r1) /\ Accepted(r2)) => rrespJob[r1] = rrespJob[r2]

====
